---------------------------- MODULE Spec2Model ----------------------------
(***************************************************************************)
(* EDU-CPU toolchain: the instruction-level simulator (simulator.py) and   *)
(* the two-pass assembler (assembler.py), as state machines.               *)
(***************************************************************************)
EXTENDS Integers, Sequences, FiniteSets, TLC

(***************************************************************************)
(* Bounds of the model.                                                    *)
(***************************************************************************)
\* the longest curated program, in chunks (instructions)
MaxChunks == 3
\* the same for the images run() is followed to its end on
MaxRunChunks == 2
\* the largest max_cycles a caller of run() passes
MaxCycles == 3
\* the largest number of instructions a caller of step() executes
MaxSteps == 5
\* the longest source drawn from the pool of lines
MaxLines == 2
\* the max_cycles argument of the run of an assembled program
RunCycles == 24

Byte == 0..255

(***************************************************************************)
(* simulator.py: decode tables                                             *)
(***************************************************************************)
\* an LD table whose codes name the next register
LD_OPCODES_rotated == (0 :> "R0") @@ (1 :> "R1") @@ (2 :> "A")

LD_OPCODES == (0 :> "A") @@ (1 :> "R0") @@ (2 :> "R1")

ST_OPCODES == (3 :> "A") @@ (4 :> "R0") @@ (5 :> "R1")

ALU_OPCODES ==
    (6 :> "ADD") @@ (7 :> "SUB") @@ (8 :> "AND") @@ (9 :> "OR") @@
    (10 :> "XOR") @@ (11 :> "CMP")

\* a branch table in which BZ and BNZ test the opposite of Z
BRANCH_CONDITION_swapped ==
    (104 :> [name |-> "BZ",  cond |-> [zc \in BOOLEAN \X BOOLEAN |-> ~zc[1]]]) @@
    (105 :> [name |-> "BNZ", cond |-> [zc \in BOOLEAN \X BOOLEAN |-> zc[1]]]) @@
    (106 :> [name |-> "BC",  cond |-> [zc \in BOOLEAN \X BOOLEAN |-> zc[2]]]) @@
    (107 :> [name |-> "BNC", cond |-> [zc \in BOOLEAN \X BOOLEAN |-> ~zc[2]]])

\* opcode -> which flag the branch tests and the value it must have
BRANCH_CONDITION ==
    (104 :> [name |-> "BZ",  cond |-> [zc \in BOOLEAN \X BOOLEAN |-> zc[1]]]) @@
    (105 :> [name |-> "BNZ", cond |-> [zc \in BOOLEAN \X BOOLEAN |-> ~zc[1]]]) @@
    (106 :> [name |-> "BC",  cond |-> [zc \in BOOLEAN \X BOOLEAN |-> zc[2]]]) @@
    (107 :> [name |-> "BNC", cond |-> [zc \in BOOLEAN \X BOOLEAN |-> ~zc[2]]])

\* a table in which the R bit names R0 or R1 whatever the primary register is
REG_MODE_MAP_direct ==
    [p \in {"A", "R0", "R1"} |-> (0 :> "R0") @@ (1 :> "R1")]

REG_MODE_MAP ==
    [p \in {"A", "R0", "R1"} |->
        CASE p = "A"  -> (0 :> "R0") @@ (1 :> "R1")
          [] p = "R0" -> (0 :> "A")  @@ (1 :> "R1")
          [] p = "R1" -> (0 :> "A")  @@ (1 :> "R0")]

REG_ENCODING == (0 :> "A") @@ (1 :> "R0") @@ (2 :> "R1")

IO_ADDR == 255
STACK_DEPTH == 4

(***************************************************************************)
(* Text.  A Python str is a TLA+ string; None is <<>> and a present value  *)
(* v is <<v>>.                                                             *)
(***************************************************************************)
None == <<>>
Some(v) == <<v>>

Ch(s, i) == SubSeq(s, i, i)

LOWER == "abcdefghijklmnopqrstuvwxyz"
UPPER == "ABCDEFGHIJKLMNOPQRSTUVWXYZ"
DIGITS == "0123456789"
HEXDIGITS == "0123456789abcdef"
\* the characters of code 32..95 and of code 97..126, in order
PRINTABLE_LO ==
    " !\"#$%&'()*+,-./0123456789:;<=>?@ABCDEFGHIJKLMNOPQRSTUVWXYZ[\\]^_"
PRINTABLE_HI == "abcdefghijklmnopqrstuvwxyz{|}~"

\* position of the one-character string ch in s, 0 when absent
IndexIn(s, ch) ==
    IF \E i \in 1..Len(s) : Ch(s, i) = ch
    THEN CHOOSE i \in 1..Len(s) : Ch(s, i) = ch /\ \A j \in 1..(i - 1) : Ch(s, j) # ch
    ELSE 0

\* ord(): tab and the printable ASCII characters; any other character of
\* the texts of the model is U+00E9
ord(ch) ==
    IF ch = "\t" THEN 9
    ELSE IF IndexIn(PRINTABLE_LO, ch) > 0 THEN 31 + IndexIn(PRINTABLE_LO, ch)
    ELSE IF IndexIn(PRINTABLE_HI, ch) > 0 THEN 96 + IndexIn(PRINTABLE_HI, ch)
    ELSE 233

IsSpace(ch) == ch \in {" ", "\t"}
IsDigit(ch) == IndexIn(DIGITS, ch) > 0
IsAlpha(ch) == IndexIn(LOWER, ch) > 0 \/ IndexIn(UPPER, ch) > 0
IsWord(ch)  == IsAlpha(ch) \/ IsDigit(ch) \/ ch = "_"

UpperCh(ch) == IF IndexIn(LOWER, ch) > 0 THEN Ch(UPPER, IndexIn(LOWER, ch)) ELSE ch
LowerCh(ch) == IF IndexIn(UPPER, ch) > 0 THEN Ch(LOWER, IndexIn(UPPER, ch)) ELSE ch

RECURSIVE upper(_)
upper(s) == IF s = "" THEN "" ELSE UpperCh(Head(s)) \o upper(Tail(s))

RECURSIVE lstrip(_)
lstrip(s) == IF s # "" /\ IsSpace(Head(s)) THEN lstrip(Tail(s)) ELSE s

RECURSIVE rstrip(_)
rstrip(s) ==
    IF s # "" /\ IsSpace(Ch(s, Len(s))) THEN rstrip(SubSeq(s, 1, Len(s) - 1)) ELSE s

strip(s) == rstrip(lstrip(s))

startswith(s, p) == Len(s) >= Len(p) /\ SubSeq(s, 1, Len(p)) = p
endswith(s, p) == Len(s) >= Len(p) /\ SubSeq(s, Len(s) - Len(p) + 1, Len(s)) = p

\* s[i:] and s[i:j] with Python's 0-based, end-exclusive indices (i, j >= 0)
From(s, i) == SubSeq(s, i + 1, Len(s))
Slice(s, i, j) == SubSeq(s, i + 1, IF j > Len(s) THEN Len(s) ELSE j)

\* s.split(","): the pieces between commas
RECURSIVE split_comma(_)
split_comma(s) ==
    IF IndexIn(s, ",") = 0 THEN <<s>>
    ELSE <<SubSeq(s, 1, IndexIn(s, ",") - 1)>> \o split_comma(From(s, IndexIn(s, ",")))

\* s.split(",", 1)
split_comma1(s) ==
    IF IndexIn(s, ",") = 0 THEN <<s>>
    ELSE <<SubSeq(s, 1, IndexIn(s, ",") - 1), From(s, IndexIn(s, ","))>>

\* s.strip("\"'")
IsQuote(ch) == ch \in {"\"", "'"}

RECURSIVE strip_quotes(_)
strip_quotes(s) ==
    IF s # "" /\ IsQuote(Head(s)) THEN strip_quotes(Tail(s))
    ELSE IF s # "" /\ IsQuote(Ch(s, Len(s))) THEN strip_quotes(SubSeq(s, 1, Len(s) - 1))
    ELSE s

(***************************************************************************)
(* assembler.py: encoding tables                                           *)
(***************************************************************************)
LD_CODES == ("A" :> 0) @@ ("R0" :> 1) @@ ("R1" :> 2)

ST_CODES == ("A" :> 3) @@ ("R0" :> 4) @@ ("R1" :> 5)

ALU_INSTRUCTIONS ==
    ("ADD" :> 6) @@ ("SUB" :> 7) @@ ("AND" :> 8) @@ ("OR" :> 9) @@
    ("XOR" :> 10) @@ ("CMP" :> 11)

REG_MODE_R_BIT ==
    (<<"A", "R0">> :> 0) @@ (<<"A", "R1">> :> 1) @@
    (<<"R0", "A">> :> 0) @@ (<<"R0", "R1">> :> 1) @@
    (<<"R1", "A">> :> 0) @@ (<<"R1", "R0">> :> 1)

FIXED_OPCODES ==
    ("JMP" :> 96) @@ ("BZ" :> 104) @@ ("BNZ" :> 105) @@ ("BC" :> 106) @@
    ("BNC" :> 107) @@ ("CALL" :> 112) @@ ("RET" :> 120) @@
    ("PUSH A" :> 128) @@ ("PUSH R0" :> 129) @@ ("PUSH R1" :> 130) @@
    ("POP A" :> 136) @@ ("POP R0" :> 137) @@ ("POP R1" :> 138) @@
    ("INC A" :> 144) @@ ("INC R0" :> 145) @@ ("INC R1" :> 146) @@
    ("DEC A" :> 152) @@ ("DEC R0" :> 153) @@ ("DEC R1" :> 154) @@
    ("NOP" :> 160) @@ ("HLT" :> 168)

NO_OPERAND ==
    {"RET", "PUSH A", "PUSH R0", "PUSH R1", "POP A", "POP R0", "POP R1",
     "INC A", "INC R0", "INC R1", "DEC A", "DEC R0", "DEC R1", "NOP", "HLT"}

BRANCH_INSTRUCTIONS == {"BZ", "BNZ", "BC", "BNC"}

REGISTER_NAMES == {"A", "R0", "R1"}

ESCAPE_MAP ==
    ("n" :> 10) @@ ("t" :> 9) @@ ("r" :> 13) @@ ("0" :> 0) @@ ("\\" :> 92)

(***************************************************************************)
(* assembler.py: number parsing                                            *)
(***************************************************************************)
\* decode_string: the bytes, or the ValueError it raises
RECURSIVE decode_string(_)
decode_string(s) ==
    LET cons(b, rest) ==
            IF rest.ok
            THEN [ok |-> TRUE, bytes |-> <<b>> \o rest.bytes, err |-> ""]
            ELSE rest
    IN  IF s = "" THEN [ok |-> TRUE, bytes |-> <<>>, err |-> ""]
        ELSE IF Head(s) = "\\" /\ Len(s) > 1
        THEN IF Ch(s, 2) \in DOMAIN ESCAPE_MAP
             THEN cons(ESCAPE_MAP[Ch(s, 2)], decode_string(From(s, 2)))
             ELSE [ok |-> FALSE, bytes |-> <<>>, err |-> "Unknown escape sequence"]
        ELSE IF ord(Head(s)) > 127
        THEN [ok |-> FALSE, bytes |-> <<>>, err |-> "Non-ASCII character"]
        ELSE cons(ord(Head(s)), decode_string(Tail(s)))

\* the value of a digit string in a base (digits already checked)
RECURSIVE DigitsValue(_, _)
DigitsValue(s, base) ==
    IF s = "" THEN 0
    ELSE DigitsValue(SubSeq(s, 1, Len(s) - 1), base) * base
         + (IndexIn(HEXDIGITS, LowerCh(Ch(s, Len(s)))) - 1)

AllDigits(s, base) ==
    /\ s # ""
    /\ \A i \in 1..Len(s) :
          /\ IndexIn(HEXDIGITS, LowerCh(Ch(s, i))) > 0
          /\ IndexIn(HEXDIGITS, LowerCh(Ch(s, i))) <= base

\* int(s, base) for a text with a two-character base prefix: an integer, or
\* the ValueError that parse_number does not catch
IntPrefixed(s, base) ==
    IF AllDigits(From(s, 2), base)
    THEN [k |-> "int", n |-> DigitsValue(From(s, 2), base)]
    ELSE [k |-> "raise", n |-> 0]

\* try: int(s) except ValueError: None
IntDecimal(s) ==
    LET value(negative, digits) ==
            IF AllDigits(digits, 10)
            THEN [k |-> "int",
                  n |-> IF negative THEN 0 - DigitsValue(digits, 10)
                        ELSE DigitsValue(digits, 10)]
            ELSE [k |-> "none", n |-> 0]
    IN  IF s # "" /\ Head(s) \in {"+", "-"}
        THEN value(Head(s) = "-", Tail(s))
        ELSE value(FALSE, s)

\* parse_number that also takes a quoted character as its code
parse_number_with_chars(text, syms) ==
    LET number(s) ==
            IF syms # <<>> /\ s \in DOMAIN syms
            THEN [k |-> "int", n |-> syms[s]]
            ELSE IF Len(s) = 3 /\ Ch(s, 1) = "'" /\ Ch(s, 3) = "'"
            THEN [k |-> "int", n |-> ord(Ch(s, 2))]
            ELSE IF startswith(s, "0x") \/ startswith(s, "0X")
            THEN IntPrefixed(s, 16)
            ELSE IF startswith(s, "0b") \/ startswith(s, "0B")
            THEN IntPrefixed(s, 2)
            ELSE IntDecimal(s)
    IN  number(strip(text))

\* parse_number: [k |-> "int", n |-> value], [k |-> "none"] for None, or
\* [k |-> "raise"] for the uncaught ValueError.  syms is the dict passed
\* (<<>>: none, or empty)
parse_number(text, syms) ==
    LET number(s) ==
            IF syms # <<>> /\ s \in DOMAIN syms
            THEN [k |-> "int", n |-> syms[s]]
            ELSE IF startswith(s, "0x") \/ startswith(s, "0X")
            THEN IntPrefixed(s, 16)
            ELSE IF startswith(s, "0b") \/ startswith(s, "0B")
            THEN IntPrefixed(s, 2)
            ELSE IntDecimal(s)
    IN  number(strip(text))

(***************************************************************************)
(* assembler.py: operand parsing                                           *)
(***************************************************************************)
\* the group a lazy (.+?) captures in front of \s*\]$ or at the end, from
\* the text x that follows the optional leading white space: strip(x), or
\* the last white-space character when x is all white space
LazyGroup(x) == IF strip(x) # "" THEN strip(x) ELSE Ch(x, Len(x))

\* RE_INDEXED: [hit, reg, has (group 2 matched), g2]
RE_INDEXED(text) ==
    LET miss == [hit |-> FALSE, reg |-> "", has |-> FALSE, g2 |-> ""]
        \* after == the text that follows R[01] and \s*
        offset(reg, after) ==
            IF after = "]"
            THEN [hit |-> TRUE, reg |-> reg, has |-> FALSE, g2 |-> ""]
            ELSE IF startswith(after, "+") /\ Len(after) >= 3
            THEN [hit |-> TRUE, reg |-> reg, has |-> TRUE,
                  g2 |-> LazyGroup(SubSeq(after, 2, Len(after) - 1))]
            ELSE miss
        \* body == the text that follows "[" and \s*
        register(body) ==
            IF Len(body) >= 3 /\ upper(Ch(body, 1)) = "R" /\ Ch(body, 2) \in {"0", "1"}
            THEN offset(SubSeq(body, 1, 2), lstrip(From(body, 2)))
            ELSE miss
    IN  IF startswith(text, "[") /\ endswith(text, "]")
        THEN register(lstrip(From(text, 1)))
        ELSE miss

\* RE_DIRECT: [hit, g1]
RE_DIRECT(text) ==
    IF startswith(text, "[") /\ endswith(text, "]") /\ Len(text) >= 3
    THEN [hit |-> TRUE, g1 |-> LazyGroup(SubSeq(text, 2, Len(text) - 1))]
    ELSE [hit |-> FALSE, g1 |-> ""]

\* RE_IMMEDIATE: [hit, g1]
RE_IMMEDIATE(text) ==
    LET group(x) == IF x # "" THEN x ELSE Ch(text, Len(text))
    IN  IF startswith(text, "#") /\ Len(text) >= 2
        THEN [hit |-> TRUE, g1 |-> group(lstrip(From(text, 1)))]
        ELSE [hit |-> FALSE, g1 |-> ""]

\* the third component of parse_operand's result: an int, the text of an
\* unresolved symbol, or None; "raise" when parse_number raised
IntVal(n) == [k |-> "int", n |-> n, s |-> ""]
StrVal(t) == [k |-> "str", n |-> 0, s |-> t]
NoneVal   == [k |-> "none", n |-> 0, s |-> ""]
RaiseVal  == [k |-> "raise", n |-> 0, s |-> ""]

\* "val = parse_number(t, symbols); if val is None: ... t ... else ... val"
NumberOrText(t, syms) ==
    LET choose(v) ==
            CASE v.k = "int" -> IntVal(v.n)
              [] v.k = "none" -> StrVal(t)
              [] v.k = "raise" -> RaiseVal
    IN  choose(parse_number(t, syms))

\* parse_operand: (mode, reg_name, value)
parse_operand(text0, syms) ==
    LET \* what the patterns make of the stripped text: the mode, the register,
        \* and the text handed to parse_number (has: there is one)
        value(text) == [mode |-> "value", reg |-> "", has |-> TRUE, num |-> text]
        immediate(text, m) ==
            IF m.hit THEN [mode |-> "imm", reg |-> "", has |-> TRUE, num |-> m.g1]
            ELSE value(text)
        direct(text, m) ==
            IF m.hit THEN [mode |-> "direct", reg |-> "", has |-> TRUE, num |-> m.g1]
            ELSE immediate(text, RE_IMMEDIATE(text))
        indexed(text, m) ==
            IF m.hit
            THEN [mode |-> "indexed", reg |-> upper(m.reg), has |-> m.has, num |-> m.g2]
            ELSE direct(text, RE_DIRECT(text))
        register(text, up) ==
            IF up \in REGISTER_NAMES
            THEN [mode |-> "reg", reg |-> up, has |-> FALSE, num |-> ""]
            ELSE indexed(text, RE_INDEXED(text))
        result(m) ==
            [mode |-> m.mode, reg |-> m.reg,
             val |-> IF m.mode = "reg" THEN NoneVal
                     ELSE IF ~m.has THEN IntVal(0)
                     ELSE NumberOrText(m.num, syms)]
        stripped(text) == result(register(text, upper(text)))
    IN  stripped(strip(text0))

(***************************************************************************)
(* assembler.py: encoding functions.  [ok, opcode, operand (None or a      *)
(* byte)], or the ValueError raised                                        *)
(***************************************************************************)
Encoded(opc, operand_) == [ok |-> TRUE, opcode |-> opc, operand |-> operand_, err |-> ""]
EncodeError(msg) == [ok |-> FALSE, opcode |-> 0, operand |-> None, err |-> msg]

\* an encoder that lets an immediate store through
encode_ld_st_permissive(is_store, primary_reg, mode_, other_reg, value) ==
    LET code == IF is_store THEN ST_CODES[primary_reg] ELSE LD_CODES[primary_reg]
    IN  CASE mode_ = "imm" -> Encoded(code * 8, Some(value % 256))
          [] mode_ = "reg" ->
               IF <<primary_reg, other_reg>> \notin DOMAIN REG_MODE_R_BIT
               THEN EncodeError("Cannot use register in register mode")
               ELSE Encoded(code * 8 + REG_MODE_R_BIT[<<primary_reg, other_reg>>] * 4 + 1,
                            None)
          [] mode_ = "direct" -> Encoded(code * 8 + 2, Some(value % 256))
          [] mode_ = "indexed" ->
               Encoded(code * 8 + (IF other_reg = "R0" THEN 0 ELSE 1) * 4 + 3,
                       Some(value % 256))
          [] OTHER -> EncodeError("Invalid addressing mode")

encode_ld_st(is_store, primary_reg, mode_, other_reg, value) ==
    LET code == IF is_store THEN ST_CODES[primary_reg] ELSE LD_CODES[primary_reg]
    IN  CASE mode_ = "imm" ->
               IF is_store
               THEN EncodeError("ST does not support immediate addressing mode")
               ELSE Encoded(code * 8, Some(value % 256))
          [] mode_ = "reg" ->
               IF <<primary_reg, other_reg>> \notin DOMAIN REG_MODE_R_BIT
               THEN EncodeError("Cannot use register in register mode")
               ELSE Encoded(code * 8 + REG_MODE_R_BIT[<<primary_reg, other_reg>>] * 4 + 1,
                            None)
          [] mode_ = "direct" -> Encoded(code * 8 + 2, Some(value % 256))
          [] mode_ = "indexed" ->
               Encoded(code * 8 + (IF other_reg = "R0" THEN 0 ELSE 1) * 4 + 3,
                       Some(value % 256))
          [] OTHER -> EncodeError("Invalid addressing mode")

encode_alu(mnemonic, mode_, reg, value) ==
    LET code == ALU_INSTRUCTIONS[mnemonic]
    IN  CASE mode_ = "imm" -> Encoded(code * 8, Some(value % 256))
          [] mode_ = "reg" ->
               IF reg \notin {"R0", "R1"}
               THEN EncodeError("only accepts R0 or R1 in register mode")
               ELSE Encoded(code * 8 + (IF reg = "R0" THEN 0 ELSE 1) * 4 + 1, None)
          [] mode_ = "direct" -> Encoded(code * 8 + 2, Some(value % 256))
          [] mode_ = "indexed" ->
               Encoded(code * 8 + (IF reg = "R0" THEN 0 ELSE 1) * 4 + 3,
                       Some(value % 256))
          [] OTHER -> EncodeError("Invalid addressing mode")

(***************************************************************************)
(* assembler.py: line parsing                                              *)
(***************************************************************************)
strip_comment(line) ==
    LET cut(idx) == IF idx > 0 THEN SubSeq(line, 1, idx - 1) ELSE line
    IN  cut(IndexIn(line, ";"))

\* the length of the longest prefix of s made of \w characters
RECURSIVE WordLen(_)
WordLen(s) == IF s # "" /\ IsWord(Head(s)) THEN 1 + WordLen(Tail(s)) ELSE 0

\* the length of the longest prefix of s without white space
RECURSIVE TokenLen(_)
TokenLen(s) == IF s # "" /\ ~IsSpace(Head(s)) THEN 1 + TokenLen(Tail(s)) ELSE 0

\* parse_line: (label, mnemonic, operand_text), each None or a text
parse_line(raw_line) ==
    LET optional(rest) == IF rest = "" THEN None ELSE Some(rest)
        \* line.split(None, 1): k is the length of the first piece
        split(label, line, k) ==
            [label |-> label,
             mnemonic |-> Some(upper(SubSeq(line, 1, k))),
             operand_text |-> optional(strip(From(line, k)))]
        mnemonic(label, line) ==
            IF line = ""
            THEN [label |-> label, mnemonic |-> None, operand_text |-> None]
            ELSE split(label, line, TokenLen(line))
        \* re.match(r"^([A-Za-z_]\w*)\s*:", line): n is the length of the
        \* longest run of \w characters at the start
        labelled(line, n) ==
            IF /\ n > 0 /\ ~IsDigit(Head(line))
               /\ startswith(lstrip(From(line, n)), ":")
            THEN mnemonic(Some(SubSeq(line, 1, n)), strip(Tail(lstrip(From(line, n)))))
            ELSE mnemonic(None, line)
        stripped(line) ==
            IF line = ""
            THEN [label |-> None, mnemonic |-> None, operand_text |-> None]
            ELSE labelled(line, WordLen(line))
    IN  stripped(strip(strip_comment(raw_line)))

(***************************************************************************)
(* assembler.py: Assembler, the pure part of the two passes                *)
(***************************************************************************)
\* "if operand_text:" -- neither None nor the empty text
Truthy(opt) == opt # None /\ opt[1] # ""

\* _parse_ld_st_operand: (register, source/dest text), each None or a text
parse_ld_st_operand(operand_text) ==
    LET pieces(parts) ==
            IF Len(parts) < 2
            THEN [reg |-> Some(upper(strip(parts[1]))), scodetext |-> None]
            ELSE [reg |-> Some(upper(strip(parts[1]))),
                  scodetext |-> Some(strip(parts[2]))]
    IN  IF operand_text = None THEN [reg |-> None, scodetext |-> None]
        ELSE pieces(split_comma1(operand_text[1]))

Size(n) == [k |-> "int", n |-> n]
SizeRaise == [k |-> "raise", n |-> 0]

\* _operand_size: 1 in register mode, else 2; parse_operand is called
\* without a symbol table
operand_size(operand_text) ==
    LET size(p) ==
            IF p.val.k = "raise" THEN SizeRaise
            ELSE IF p.mode = "reg" THEN Size(1) ELSE Size(2)
    IN  IF operand_text = None THEN Size(1)
        ELSE size(parse_operand(operand_text[1], <<>>))

\* the .DB rule of instruction_size: len(s) per quoted item, 1 per other
RECURSIVE db_count(_)
db_count(items) ==
    LET count(item) ==
            IF startswith(item, "\"") \/ startswith(item, "'")
            THEN Len(strip_quotes(item))
            ELSE 1
    IN  IF items = <<>> THEN 0
        ELSE count(strip(Head(items))) + db_count(Tail(items))

IsQuoted(s) ==
    \/ startswith(s, "\"") /\ endswith(s, "\"")
    \/ startswith(s, "'") /\ endswith(s, "'")

\* s[1:-1]
Unquote(s) == SubSeq(s, 2, Len(s) - 1)

\* instruction_size: the size, or "raise" when an exception escapes it
instruction_size(mnemonic, operand_text) ==
    LET decoded(d) == IF d.ok THEN Size(Len(d.bytes) + 1) ELSE SizeRaise
        ds(s) == IF IsQuoted(s) THEN decoded(decode_string(Unquote(s))) ELSE Size(1)
        ld_st(parts) ==
            IF parts.scodetext = None THEN Size(1)
            ELSE operand_size(parts.scodetext)
    IN  CASE mnemonic = ".ORG" -> Size(0)
          [] mnemonic = ".EQU" -> Size(0)
          [] mnemonic = ".DB" ->
               IF Truthy(operand_text)
               THEN Size(db_count(split_comma(operand_text[1])))
               ELSE Size(0)
          [] mnemonic = ".DS" ->
               IF Truthy(operand_text) THEN ds(strip(operand_text[1])) ELSE Size(1)
          [] mnemonic \in {"LD", "ST"} ->
               ld_st(parse_ld_st_operand(operand_text))
          [] OTHER ->
               IF Truthy(operand_text)
                  /\ (mnemonic \o " " \o upper(strip(operand_text[1])))
                         \in DOMAIN FIXED_OPCODES
               THEN Size(1)
               ELSE IF mnemonic \in DOMAIN FIXED_OPCODES
               THEN IF mnemonic \in NO_OPERAND THEN Size(1) ELSE Size(2)
               ELSE IF mnemonic \in DOMAIN ALU_INSTRUCTIONS
               THEN operand_size(operand_text)
               ELSE Size(1)

\* what pass 2 does with one line: the bytes emitted, the errors reported
\* (messages, in order) and whether an exception escaped
Emit(bytes, errs) == [emitted |-> bytes, errs |-> errs, crash |-> FALSE]
Crash == [emitted |-> <<>>, errs |-> <<>>, crash |-> TRUE]

\* resolve: the value and the error reported
resolve(v, syms) ==
    IF v.k = "str"
    THEN IF v.s \in DOMAIN syms
         THEN [val |-> IntVal(syms[v.s]), errs |-> <<>>]
         ELSE [val |-> IntVal(0), errs |-> <<"Undefined symbol">>]
    ELSE [val |-> v, errs |-> <<>>]

\* "val if val is not None else 0"
OrZero(v) == IF v.k = "none" THEN 0 ELSE v.n

\* the bytes of an encoding
EncodedBytes(e) ==
    IF e.operand = None THEN <<e.opcode>> ELSE <<e.opcode, e.operand[1]>>

\* "try: opcode, operand = encode...; emitted.append(...)
\*  except ValueError as e: self.error(...); emitted.append(0)"
emit_encoded(enc, errs) ==
    IF enc.ok THEN Emit(EncodedBytes(enc), errs)
    ELSE Emit(<<0>>, errs \o <<enc.err>>)

\* .DB, lines 481-492
RECURSIVE pass2_db(_, _)
pass2_db(items, syms) ==
    LET symbol(res) == Emit(<<res.val.n % 256>>, res.errs)
        number(num, item) ==
            CASE num.k = "raise" -> Crash
              [] num.k = "int" -> Emit(<<num.n % 256>>, <<>>)
              [] num.k = "none" -> symbol(resolve(StrVal(item), syms))
        chars(s) == Emit([i \in 1..Len(s) |-> ord(Ch(s, i))], <<>>)
        one(item) ==
            IF startswith(item, "\"") \/ startswith(item, "'")
            THEN chars(strip_quotes(item))
            ELSE number(parse_number(item, syms), item)
        join(here, rest) ==
            IF here.crash \/ rest.crash THEN Crash
            ELSE Emit(here.emitted \o rest.emitted, here.errs \o rest.errs)
    IN  IF items = <<>> THEN Emit(<<>>, <<>>)
        ELSE join(one(strip(Head(items))), pass2_db(Tail(items), syms))

\* .DS, lines 494-508
pass2_ds(operand_text) ==
    LET decoded(d) ==
            IF d.ok THEN Emit(d.bytes \o <<0>>, <<>>) ELSE Emit(<<0>>, <<d.err>>)
        ds(s) ==
            IF IsQuoted(s) THEN decoded(decode_string(Unquote(s)))
            ELSE Emit(<<0>>, <<".DS requires a quoted string">>)
    IN  IF Truthy(operand_text) THEN ds(strip(operand_text[1]))
        ELSE Emit(<<0>>, <<".DS requires a quoted string">>)

\* LD / ST, lines 511-545
pass2_ld_st(mnemonic, operand_text, syms) ==
    LET encode(is_store, reg, mode_, other, res) ==
            emit_encoded(encode_ld_st(is_store, reg, mode_, other, OrZero(res.val)),
                         res.errs)
        operand_(is_store, reg, p) ==
            IF p.val.k = "raise" THEN Crash
            ELSE encode(is_store, reg,
                        IF p.mode = "value"
                        THEN (IF is_store THEN "direct" ELSE "imm")
                        ELSE p.mode,
                        p.reg, resolve(p.val, syms))
        split(is_store, parts) ==
            IF parts.reg = None \/ parts.reg[1] \notin REGISTER_NAMES
            THEN Emit(<<0>>, <<"requires A, R0, or R1 as first operand">>)
            ELSE IF parts.scodetext = None
            THEN Emit(<<0>>, <<"requires a second operand">>)
            ELSE operand_(is_store, parts.reg[1],
                          parse_operand(parts.scodetext[1], syms))
    IN  split(mnemonic = "ST", parse_ld_st_operand(operand_text))

\* JMP / CALL, lines 559-568
pass2_jmp_call(mnemonic, operand_text, syms) ==
    LET address(res) ==
            IF res.val.k = "none" THEN Crash
            ELSE Emit(<<FIXED_OPCODES[mnemonic], res.val.n % 256>>, res.errs)
        parsed(p) ==
            IF p.val.k = "raise" THEN Crash ELSE address(resolve(p.val, syms))
    IN  IF operand_text = None
        THEN Emit(<<FIXED_OPCODES[mnemonic], 0>>, <<"requires an address">>)
        ELSE parsed(parse_operand(operand_text[1], syms))

\* a branch encoder that measures the displacement from the opcode byte
pass2_branch_from_opcode(mnemonic, operand_text, syms, start_pc) ==
    LET displaced(disp, errs) ==
            IF disp < -128 \/ disp > 127
            THEN Emit(<<FIXED_OPCODES[mnemonic], 0>>,
                      errs \o <<"Branch displacement out of range">>)
            ELSE Emit(<<FIXED_OPCODES[mnemonic], disp % 256>>, errs)
        target(res) ==
            IF res.val.k = "none" THEN Crash
            ELSE displaced(res.val.n - start_pc, res.errs)
        parsed(p) ==
            IF p.val.k = "raise" THEN Crash ELSE target(resolve(p.val, syms))
    IN  IF operand_text = None
        THEN Emit(<<FIXED_OPCODES[mnemonic], 0>>, <<"requires a target">>)
        ELSE parsed(parse_operand(operand_text[1], syms))

\* branches, lines 571-588
pass2_branch(mnemonic, operand_text, syms, start_pc) ==
    LET displaced(disp, errs) ==
            IF disp < -128 \/ disp > 127
            THEN Emit(<<FIXED_OPCODES[mnemonic], 0>>,
                      errs \o <<"Branch displacement out of range">>)
            ELSE Emit(<<FIXED_OPCODES[mnemonic], disp % 256>>, errs)
        target(res) ==
            IF res.val.k = "none" THEN Crash
            ELSE displaced(res.val.n - (start_pc + 2), res.errs)
        parsed(p) ==
            IF p.val.k = "raise" THEN Crash ELSE target(resolve(p.val, syms))
    IN  IF operand_text = None
        THEN Emit(<<FIXED_OPCODES[mnemonic], 0>>, <<"requires a target">>)
        ELSE parsed(parse_operand(operand_text[1], syms))

\* ALU instructions with a bare operand taken as a direct address
pass2_alu_bare_direct(mnemonic, operand_text, syms) ==
    LET encode(mode_, reg, res) ==
            emit_encoded(encode_alu(mnemonic, mode_, reg, OrZero(res.val)), res.errs)
        parsed(p) ==
            IF p.val.k = "raise" THEN Crash
            ELSE encode(IF p.mode = "value" THEN "direct" ELSE p.mode, p.reg,
                        resolve(p.val, syms))
    IN  IF operand_text = None
        THEN Emit(<<0>>, <<"requires an operand">>)
        ELSE parsed(parse_operand(operand_text[1], syms))

\* ALU instructions, lines 591-613
pass2_alu(mnemonic, operand_text, syms) ==
    LET encode(mode_, reg, res) ==
            emit_encoded(encode_alu(mnemonic, mode_, reg, OrZero(res.val)), res.errs)
        parsed(p) ==
            IF p.val.k = "raise" THEN Crash
            ELSE encode(IF p.mode = "value" THEN "imm" ELSE p.mode, p.reg,
                        resolve(p.val, syms))
    IN  IF operand_text = None
        THEN Emit(<<0>>, <<"requires an operand">>)
        ELSE parsed(parse_operand(operand_text[1], syms))

\* the dispatch of pass2 on the mnemonic, lines 480-618
pass2_emit(mnemonic, operand_text, syms, start_pc) ==
    LET instruction(combined) ==
            IF Truthy(operand_text) /\ combined \in DOMAIN FIXED_OPCODES
            THEN Emit(<<FIXED_OPCODES[combined]>>, <<>>)
            ELSE IF mnemonic \in NO_OPERAND /\ mnemonic \in DOMAIN FIXED_OPCODES
            THEN Emit(<<FIXED_OPCODES[mnemonic]>>, <<>>)
            ELSE IF mnemonic \in {"JMP", "CALL"}
            THEN pass2_jmp_call(mnemonic, operand_text, syms)
            ELSE IF mnemonic \in BRANCH_INSTRUCTIONS
            THEN pass2_branch(mnemonic, operand_text, syms, start_pc)
            ELSE IF mnemonic \in DOMAIN ALU_INSTRUCTIONS
            THEN pass2_alu(mnemonic, operand_text, syms)
            ELSE Emit(<<0>>, <<"Unknown instruction">>)
    IN  CASE mnemonic = ".DB" ->
               IF Truthy(operand_text)
               THEN pass2_db(split_comma(operand_text[1]), syms)
               ELSE Emit(<<>>, <<>>)
          [] mnemonic = ".DS" -> pass2_ds(operand_text)
          [] mnemonic \in {"LD", "ST"} -> pass2_ld_st(mnemonic, operand_text, syms)
          [] OTHER ->
               instruction(IF Truthy(operand_text)
                           THEN mnemonic \o " " \o upper(strip(operand_text[1]))
                           ELSE "")

\* lines 621-627: the output map after writing the emitted bytes from
\* start_pc, stopping at the first address past 0xFF
RECURSIVE write_emitted(_, _, _, _)
write_emitted(outp, emitted, start_pc, i) ==
    IF i > Len(emitted) \/ start_pc + (i - 1) > 255 THEN outp
    ELSE write_emitted(((start_pc + (i - 1)) :> emitted[i]) @@ outp,
                       emitted, start_pc, i + 1)

exceeds_memory(emitted, start_pc) ==
    \E i \in 1..Len(emitted) : start_pc + (i - 1) > 255

(***************************************************************************)
(* State.  The CPU object's fields, the bytes written to standard output,  *)
(* the outcome of the last step() call and the position of run().          *)
(***************************************************************************)
VARIABLES
    a, r, pc, z, c, sp, stack, mem, loaded, halted, cycles,  \* CPU fields
    out,         \* bytes written to sys.stdout.buffer, in order
    opcode,      \* step(): the opcode byte of the last call (-1: none yet)
    fault,       \* step(): the RuntimeError the last call raised, or "none"
    ret,         \* step(): what the last call returned ("none": it raised)
    mode,        \* "new" | "step" (step() called directly) | "run" (run())
    max_cycles,  \* run(): its max_cycles argument
    runpc,       \* run(): "loop" | "after" (past the loop) | "returned"
    rc,          \* run(): its return value (-1: not returned)
    lines,         \* assemble(): the lines of the source text
    phase,       \* assembler: "idle" | "pass1" | "pass2" | "assembled" | "exited"
    line_num,    \* the 1-based number of the line the pass is at
    symbols, asm_pc, errors,   \* Assembler fields (asm_pc is self.pc)
    output, listing,           \* pass2(): its two results so far
    pcs1, sizes1,  \* history: pass 1's PC at each line, and the size it predicted
    asm_rc,      \* assembler main(): the exit status (-1: still running)
    crashed,     \* an exception other than the reported errors ended the assembler
    written,     \* assembler main(): the object file and the listing were written
    obj_map,     \* the address -> byte map handed to generate_hex / generate_srec
    obj_fmt,     \* "none" | "hex" | "srec": the format of the object text
    obj_text,    \* the text of the object file
    obj_stage,   \* "none" | "written" (by a generator) | "given" | "parsed"
    obj_result   \* parse_hex / parse_srec: [raised, map] (before: not raised, empty)

cpu == <<a, r, pc, z, c, sp, stack, mem, loaded, halted, cycles>>
sim == <<a, r, pc, z, c, sp, stack, mem, loaded, halted, cycles,
         out, opcode, fault, ret, mode, max_cycles, runpc, rc>>
asm == <<lines, phase, line_num, symbols, asm_pc, errors, output, listing,
         pcs1, sizes1, asm_rc, crashed, written>>
obj == <<obj_map, obj_fmt, obj_text, obj_stage, obj_result>>
vars == <<sim, asm, obj>>

(***************************************************************************)
(* Bit operations on bytes (Python's &, |, ^ on values in 0..255).         *)
(***************************************************************************)
Bit(x, i) == (x \div (2 ^ i)) % 2

RECURSIVE BitOp(_, _, _, _)
BitOp(f, x, y, i) ==
    IF i > 7 THEN 0
    ELSE f[Bit(x, i), Bit(y, i)] * (2 ^ i) + BitOp(f, x, y, i + 1)

And8(x, y) == BitOp([p \in {0, 1} \X {0, 1} |-> p[1] * p[2]], x, y, 0)
Or8(x, y)  == BitOp([p \in {0, 1} \X {0, 1} |-> IF p[1] + p[2] > 0 THEN 1 ELSE 0], x, y, 0)
Xor8(x, y) == BitOp([p \in {0, 1} \X {0, 1} |-> (p[1] + p[2]) % 2], x, y, 0)

(***************************************************************************)
(* CPU helpers                                                             *)
(***************************************************************************)
get_reg(name) ==
    IF name = "A" THEN a ELSE IF name = "R0" THEN r[0] ELSE r[1]

\* _set_reg: the values of a and r after writing val to the named register
set_reg(name, val) ==
    /\ a' = IF name = "A" THEN val % 256 ELSE a
    /\ r' = IF name = "R0" THEN [r EXCEPT ![0] = val % 256]
            ELSE IF name = "R1" THEN [r EXCEPT ![1] = val % 256]
            ELSE r

\* load_map on a fresh CPU: the memory and the loaded set it leaves
LoadedMem(addr_map) ==
    [x \in Byte |-> IF x \in DOMAIN addr_map THEN addr_map[x] ELSE 0]

LoadedSet(addr_map) == {x \in DOMAIN addr_map : x < 256}

\* a write that stores the byte and sends nothing to the output
mem_write_silent(addr, val) ==
    /\ mem' = [mem EXCEPT ![addr % 256] = val % 256]
    /\ out' = out

\* mem_write: memory and output after writing val at addr
mem_write(addr, val) ==
    /\ mem' = [mem EXCEPT ![addr % 256] = val % 256]
    /\ out' = IF addr % 256 = IO_ADDR THEN Append(out, val % 256) ELSE out

\* decode of the opcode byte
iiiii(op) == (op \div 8) % 32
r_bit(op) == (op \div 4) % 2
mm(op)    == op % 4

\* the byte the next fetch() returns, and PC after one and after two fetches
op  == mem[pc]
pc1 == (pc + 1) % 256
operand == mem[pc1]
pc2 == (pc1 + 1) % 256

\* a source read that is gated by the loaded map: an unloaded address reads 0
resolve_source_gated(m, rb, primary_reg) ==
    CASE m = 0 -> operand
      [] m = 1 -> get_reg(REG_MODE_MAP[primary_reg][rb])
      [] m = 2 -> IF operand % 256 \in loaded THEN mem[operand % 256] ELSE 0
      [] m = 3 -> IF (r[rb] + operand) % 256 \in loaded
                  THEN mem[(r[rb] + operand) % 256] ELSE 0

\* resolve_source: the value read, and PC after it (PC is already at pc1)
resolve_source(m, rb, primary_reg) ==
    CASE m = 0 -> operand
      [] m = 1 -> get_reg(REG_MODE_MAP[primary_reg][rb])
      [] m = 2 -> mem[operand % 256]
      [] m = 3 -> mem[(r[rb] + operand) % 256]

pc_after_mode(m) == IF m = 1 THEN pc1 ELSE pc2

(***************************************************************************)
(* step(): who may call it, and how the call ends                          *)
(***************************************************************************)
\* a loop that tests the cycle counter with <= instead of <
CanStep_one_more ==
    \/ mode = "step" /\ cycles < MaxSteps
    \/ mode = "run" /\ runpc = "loop" /\ cycles <= max_cycles

CanStep ==
    \/ mode = "step" /\ cycles < MaxSteps
    \/ mode = "run" /\ runpc = "loop" /\ cycles < max_cycles

\* run()'s reaction to the call's outcome (lines 444-450)
RunSees(f, rv) ==
    IF mode = "run"
    THEN IF f # "none" THEN runpc' = "returned" /\ rc' = 1
         ELSE IF rv = "False" THEN runpc' = "after" /\ rc' = rc
         ELSE runpc' = "loop" /\ rc' = rc
    ELSE UNCHANGED <<runpc, rc>>

\* a RuntimeError that is counted as a cycle
Raise_counted(f, newpc) ==
    /\ pc' = newpc
    /\ fault' = f
    /\ ret' = "none"
    /\ opcode' = op
    /\ cycles' = cycles + 1
    /\ UNCHANGED <<a, r, z, c, sp, stack, mem, loaded, halted, out>>
    /\ RunSees(f, "none")
    /\ UNCHANGED <<mode, max_cycles>>
    /\ UNCHANGED <<asm, obj>>

\* the call raises RuntimeError f with PC left at newpc
Raise(f, newpc) ==
    /\ pc' = newpc
    /\ fault' = f
    /\ ret' = "none"
    /\ opcode' = op
    /\ UNCHANGED <<a, r, z, c, sp, stack, mem, loaded, halted, cycles, out>>
    /\ RunSees(f, "none")
    /\ UNCHANGED <<mode, max_cycles>>
    /\ UNCHANGED <<asm, obj>>

\* the end of a step that marks every cell it wrote as loaded
Done_marks_loaded ==
    /\ cycles' = cycles + 1
    /\ fault' = "none"
    /\ ret' = IF halted' THEN "False" ELSE "True"
    /\ opcode' = op
    /\ RunSees("none", IF halted' THEN "False" ELSE "True")
    /\ loaded' = loaded \cup {x \in Byte : mem'[x] # mem[x]}
    /\ UNCHANGED <<mode, max_cycles>>
    /\ UNCHANGED <<asm, obj>>

\* the call reaches lines 428-429
Done ==
    /\ cycles' = cycles + 1
    /\ fault' = "none"
    /\ ret' = IF halted' THEN "False" ELSE "True"
    /\ opcode' = op
    /\ RunSees("none", IF halted' THEN "False" ELSE "True")
    /\ UNCHANGED <<mode, max_cycles, loaded>>
    /\ UNCHANGED <<asm, obj>>

Fetching == CanStep /\ ~halted /\ pc \in loaded

\* the branch of step()'s if/elif chain that an opcode byte takes
Dispatch(o) ==
    IF iiiii(o) \in DOMAIN LD_OPCODES THEN "LD"
    ELSE IF iiiii(o) \in DOMAIN ST_OPCODES THEN "ST"
    ELSE IF iiiii(o) \in DOMAIN ALU_OPCODES THEN ALU_OPCODES[iiiii(o)]
    ELSE IF o = 96 THEN "JMP"
    ELSE IF o \in DOMAIN BRANCH_CONDITION THEN BRANCH_CONDITION[o].name
    ELSE IF o = 112 THEN "CALL"
    ELSE IF o = 120 THEN "RET"
    ELSE IF iiiii(o) = 16 THEN "PUSH"
    ELSE IF iiiii(o) = 17 THEN "POP"
    ELSE IF iiiii(o) = 18 THEN "INC"
    ELSE IF iiiii(o) = 19 THEN "DEC"
    ELSE IF o = 160 THEN "NOP"
    ELSE IF o = 168 THEN "HLT"
    ELSE "invalid"

(***************************************************************************)
(* step(), one action per branch of its dispatch                           *)
(***************************************************************************)
\* the step() of a halted CPU that still counts a cycle
StepHalted_counts ==
    /\ CanStep /\ halted
    /\ fault' = "none" /\ ret' = "False"
    /\ RunSees("none", "False")
    /\ cycles' = cycles + 1
    /\ UNCHANGED <<a, r, pc, z, c, sp, stack, mem, loaded, halted>>
    /\ UNCHANGED <<out, opcode, mode, max_cycles>>
    /\ UNCHANGED <<asm, obj>>

StepHalted ==
    /\ CanStep /\ halted
    /\ fault' = "none" /\ ret' = "False"
    /\ RunSees("none", "False")
    /\ UNCHANGED <<cpu, out, opcode, mode, max_cycles>>
    /\ UNCHANGED <<asm, obj>>

\* the fetch from an unloaded address taken as a NOP
StepUnloaded_as_nop ==
    /\ CanStep /\ ~halted /\ pc \notin loaded
    /\ pc' = (pc + 1) % 256
    /\ cycles' = cycles + 1
    /\ fault' = "none" /\ ret' = "True"
    /\ RunSees("none", "True")
    /\ UNCHANGED <<a, r, z, c, sp, stack, mem, loaded, halted>>
    /\ UNCHANGED <<out, opcode, mode, max_cycles>>
    /\ UNCHANGED <<asm, obj>>

StepUnloaded ==
    /\ CanStep /\ ~halted /\ pc \notin loaded
    /\ fault' = "unloaded" /\ ret' = "none"
    /\ RunSees("unloaded", "none")
    /\ UNCHANGED <<cpu, out, opcode, mode, max_cycles>>
    /\ UNCHANGED <<asm, obj>>

\* the LD that sets Z from the value it loads
StepLD_sets_z ==
    /\ Fetching /\ Dispatch(op) = "LD"
    /\ LET primary_reg == LD_OPCODES[iiiii(op)]
           value == resolve_source(mm(op), r_bit(op), primary_reg)
       IN  /\ set_reg(primary_reg, value)
           /\ z' = (value = 0)
    /\ pc' = pc_after_mode(mm(op))
    /\ UNCHANGED <<c, sp, stack, mem, halted, out>>
    /\ Done

StepLD ==
    /\ Fetching /\ Dispatch(op) = "LD"
    /\ LET primary_reg == LD_OPCODES[iiiii(op)]
           value == resolve_source(mm(op), r_bit(op), primary_reg)
       IN  set_reg(primary_reg, value)
    /\ pc' = pc_after_mode(mm(op))
    /\ UNCHANGED <<z, c, sp, stack, mem, halted, out>>
    /\ Done

StepST ==
    /\ Fetching /\ Dispatch(op) = "ST"
    /\ LET primary_reg == ST_OPCODES[iiiii(op)]
           value == get_reg(primary_reg)
       IN  \/ /\ mm(op) = 0
              /\ Raise("st_immediate", pc1)
           \/ /\ mm(op) = 1
              /\ set_reg(REG_MODE_MAP[primary_reg][r_bit(op)], value)
              /\ pc' = pc1
              /\ UNCHANGED <<z, c, sp, stack, mem, halted, out>>
              /\ Done
           \/ /\ mm(op) = 2
              /\ mem_write(operand, value)
              /\ pc' = pc2
              /\ UNCHANGED <<a, r, z, c, sp, stack, halted>>
              /\ Done
           \/ /\ mm(op) = 3
              /\ mem_write((r[r_bit(op)] + operand) % 256, value)
              /\ pc' = pc2
              /\ UNCHANGED <<a, r, z, c, sp, stack, halted>>
              /\ Done

\* set_zc with the carry taken from results above 256 only
set_zc_above(result) ==
    /\ z' = ((result % 256) = 0)
    /\ c' = (result > 256)

\* set_zc
set_zc(result) ==
    /\ z' = ((result % 256) = 0)
    /\ c' = ((result \div 256) % 2 = 1)

\* set_z_clear_c
set_z_clear_c(val) ==
    /\ z' = ((val % 256) = 0)
    /\ c' = FALSE

\* the ALU group with SUB and CMP setting C only when A was strictly greater
StepALU_strict_borrow ==
    /\ Fetching /\ Dispatch(op) \in {"ADD", "SUB", "AND", "OR", "XOR", "CMP"}
    /\ LET mnemonic == ALU_OPCODES[iiiii(op)]
           src == resolve_source(mm(op), r_bit(op), "A")
       IN  CASE mnemonic = "ADD" ->
                  /\ set_zc(a + src)
                  /\ a' = (a + src) % 256
             [] mnemonic = "SUB" ->
                  /\ c' = (a > src)
                  /\ a' = (a - src) % 256
                  /\ z' = (a' = 0)
             [] mnemonic = "AND" ->
                  /\ a' = And8(a, src)
                  /\ set_z_clear_c(a')
             [] mnemonic = "OR" ->
                  /\ a' = Or8(a, src)
                  /\ set_z_clear_c(a')
             [] mnemonic = "XOR" ->
                  /\ a' = Xor8(a, src)
                  /\ set_z_clear_c(a')
             [] mnemonic = "CMP" ->
                  /\ c' = (a > src)
                  /\ z' = (((a - src) % 256) = 0)
                  /\ a' = a
    /\ pc' = pc_after_mode(mm(op))
    /\ UNCHANGED <<r, sp, stack, mem, halted, out>>
    /\ Done

StepALU ==
    /\ Fetching /\ Dispatch(op) \in {"ADD", "SUB", "AND", "OR", "XOR", "CMP"}
    /\ LET mnemonic == ALU_OPCODES[iiiii(op)]
           src == resolve_source(mm(op), r_bit(op), "A")
       IN  CASE mnemonic = "ADD" ->
                  /\ set_zc(a + src)
                  /\ a' = (a + src) % 256
             [] mnemonic = "SUB" ->
                  /\ c' = (a >= src)
                  /\ a' = (a - src) % 256
                  /\ z' = (a' = 0)
             [] mnemonic = "AND" ->
                  /\ a' = And8(a, src)
                  /\ set_z_clear_c(a')
             [] mnemonic = "OR" ->
                  /\ a' = Or8(a, src)
                  /\ set_z_clear_c(a')
             [] mnemonic = "XOR" ->
                  /\ a' = Xor8(a, src)
                  /\ set_z_clear_c(a')
             [] mnemonic = "CMP" ->
                  /\ c' = (a >= src)
                  /\ z' = (((a - src) % 256) = 0)
                  /\ a' = a
    /\ pc' = pc_after_mode(mm(op))
    /\ UNCHANGED <<r, sp, stack, mem, halted, out>>
    /\ Done

StepJMP ==
    /\ Fetching /\ Dispatch(op) = "JMP"
    /\ pc' = operand
    /\ UNCHANGED <<a, r, z, c, sp, stack, mem, halted, out>>
    /\ Done

StepBranch ==
    /\ Fetching /\ Dispatch(op) \in {"BZ", "BNZ", "BC", "BNC"}
    /\ LET disp_byte == operand
           disp == IF disp_byte < 128 THEN disp_byte ELSE disp_byte - 256
       IN  pc' = IF BRANCH_CONDITION[op].cond[z, c]
                 THEN (pc2 + disp) % 256
                 ELSE pc2
    /\ UNCHANGED <<a, r, z, c, sp, stack, mem, halted, out>>
    /\ Done

\* a push that checks one slot too late
push_overflow_late == sp > STACK_DEPTH

\* push: the overflow check, then the slot and SP
push_overflow == sp >= STACK_DEPTH

push(val) ==
    /\ stack' = [stack EXCEPT ![sp] = val % 256]
    /\ sp' = sp + 1

\* pop: the underflow check, then SP; the value popped is stack[sp - 1]
pop_underflow == sp <= 0

pop == sp' = sp - 1

\* CALL that pushes the address of its operand byte instead of the address
\* after it
StepCALL_operand_address ==
    /\ Fetching /\ Dispatch(op) = "CALL"
    /\ \/ /\ push_overflow
          /\ Raise("stack_overflow", pc2)
       \/ /\ ~push_overflow
          /\ push(pc1)
          /\ pc' = operand
          /\ UNCHANGED <<a, r, z, c, mem, halted, out>>
          /\ Done

StepCALL ==
    /\ Fetching /\ Dispatch(op) = "CALL"
    /\ \/ /\ push_overflow
          /\ Raise("stack_overflow", pc2)
       \/ /\ ~push_overflow
          /\ push(pc2)
          /\ pc' = operand
          /\ UNCHANGED <<a, r, z, c, mem, halted, out>>
          /\ Done

StepRET ==
    /\ Fetching /\ Dispatch(op) = "RET"
    /\ \/ /\ pop_underflow
          /\ Raise("stack_underflow", pc1)
       \/ /\ ~pop_underflow
          /\ pop
          /\ pc' = stack[sp - 1]
          /\ UNCHANGED <<a, r, z, c, stack, mem, halted, out>>
          /\ Done

StepPUSH ==
    /\ Fetching /\ Dispatch(op) = "PUSH"
    /\ LET reg_code == mm(op)
       IN  \/ /\ reg_code \notin DOMAIN REG_ENCODING
              /\ Raise("invalid_push", pc1)
           \/ /\ reg_code \in DOMAIN REG_ENCODING
              /\ push_overflow
              /\ Raise("stack_overflow", pc1)
           \/ /\ reg_code \in DOMAIN REG_ENCODING
              /\ ~push_overflow
              /\ push(get_reg(REG_ENCODING[reg_code]))
              /\ pc' = pc1
              /\ UNCHANGED <<a, r, z, c, mem, halted, out>>
              /\ Done

\* POP that hands out the oldest slot instead of the newest
StepPOP_oldest ==
    /\ Fetching /\ Dispatch(op) = "POP"
    /\ LET reg_code == mm(op)
       IN  \/ /\ reg_code \notin DOMAIN REG_ENCODING
              /\ Raise("invalid_pop", pc1)
           \/ /\ reg_code \in DOMAIN REG_ENCODING
              /\ pop_underflow
              /\ Raise("stack_underflow", pc1)
           \/ /\ reg_code \in DOMAIN REG_ENCODING
              /\ ~pop_underflow
              /\ pop
              /\ set_reg(REG_ENCODING[reg_code], stack[0])
              /\ pc' = pc1
              /\ UNCHANGED <<z, c, stack, mem, halted, out>>
              /\ Done

StepPOP ==
    /\ Fetching /\ Dispatch(op) = "POP"
    /\ LET reg_code == mm(op)
       IN  \/ /\ reg_code \notin DOMAIN REG_ENCODING
              /\ Raise("invalid_pop", pc1)
           \/ /\ reg_code \in DOMAIN REG_ENCODING
              /\ pop_underflow
              /\ Raise("stack_underflow", pc1)
           \/ /\ reg_code \in DOMAIN REG_ENCODING
              /\ ~pop_underflow
              /\ pop
              /\ set_reg(REG_ENCODING[reg_code], stack[sp - 1])
              /\ pc' = pc1
              /\ UNCHANGED <<z, c, stack, mem, halted, out>>
              /\ Done

\* INC and DEC that carry out of the register into C
IncDec_with_carry(delta, f) ==
    LET reg_code == mm(op)
    IN  \/ /\ reg_code \notin DOMAIN REG_ENCODING
           /\ Raise(f, pc1)
        \/ /\ reg_code \in DOMAIN REG_ENCODING
           /\ LET wide == get_reg(REG_ENCODING[reg_code]) + delta
              IN  /\ set_reg(REG_ENCODING[reg_code], wide % 256)
                  /\ z' = ((wide % 256) = 0)
                  /\ c' = IF wide \notin Byte THEN TRUE ELSE c
           /\ pc' = pc1
           /\ UNCHANGED <<sp, stack, mem, halted, out>>
           /\ Done

\* INC (delta = 1) and DEC (delta = -1) after the dispatch; set_z_only on the
\* new value
IncDec(delta, f) ==
    LET reg_code == mm(op)
    IN  \/ /\ reg_code \notin DOMAIN REG_ENCODING
           /\ Raise(f, pc1)
        \/ /\ reg_code \in DOMAIN REG_ENCODING
           /\ LET val == (get_reg(REG_ENCODING[reg_code]) + delta) % 256
              IN  /\ set_reg(REG_ENCODING[reg_code], val)
                  /\ z' = ((val % 256) = 0)
           /\ pc' = pc1
           /\ UNCHANGED <<c, sp, stack, mem, halted, out>>
           /\ Done

StepINC ==
    /\ Fetching /\ Dispatch(op) = "INC"
    /\ IncDec(1, "invalid_inc")

\* the DEC of a register that leaves Z as it was
StepDEC_keeps_z ==
    /\ Fetching /\ Dispatch(op) = "DEC"
    /\ LET reg_code == mm(op)
       IN  \/ /\ reg_code \notin DOMAIN REG_ENCODING
              /\ Raise("invalid_dec", pc1)
           \/ /\ reg_code \in DOMAIN REG_ENCODING
              /\ set_reg(REG_ENCODING[reg_code],
                         (get_reg(REG_ENCODING[reg_code]) - 1) % 256)
              /\ pc' = pc1
              /\ UNCHANGED <<z, c, sp, stack, mem, halted, out>>
              /\ Done

StepDEC ==
    /\ Fetching /\ Dispatch(op) = "DEC"
    /\ IncDec(-1, "invalid_dec")

StepNOP ==
    /\ Fetching /\ Dispatch(op) = "NOP"
    /\ pc' = pc1
    /\ UNCHANGED <<a, r, z, c, sp, stack, mem, halted, out>>
    /\ Done

StepHLT ==
    /\ Fetching /\ Dispatch(op) = "HLT"
    /\ halted' = TRUE
    /\ pc' = pc1
    /\ UNCHANGED <<a, r, z, c, sp, stack, mem, out>>
    /\ Done

\* the final else of the dispatch
StepInvalid ==
    /\ Fetching /\ Dispatch(op) = "invalid"
    /\ Raise("invalid_opcode", pc1)

Step ==
    \/ StepHalted \/ StepUnloaded \/ StepLD \/ StepST \/ StepALU \/ StepJMP
    \/ StepBranch \/ StepCALL \/ StepRET \/ StepPUSH \/ StepPOP \/ StepINC
    \/ StepDEC \/ StepNOP \/ StepHLT \/ StepInvalid

(***************************************************************************)
(* run(): the loop test, and the code after the loop                       *)
(***************************************************************************)
RunLoopExit ==
    /\ mode = "run" /\ runpc = "loop" /\ ~(cycles < max_cycles)
    /\ runpc' = "after"
    /\ UNCHANGED <<cpu, out, opcode, fault, ret, mode, max_cycles, rc>>
    /\ UNCHANGED <<asm, obj>>

RunReturn ==
    /\ mode = "run" /\ runpc = "after"
    /\ rc' = IF cycles >= max_cycles THEN 1 ELSE 0
    /\ runpc' = "returned"
    /\ UNCHANGED <<cpu, out, opcode, fault, ret, mode, max_cycles>>
    /\ UNCHANGED <<asm, obj>>

(***************************************************************************)
(* Images the simulator is given                                           *)
(***************************************************************************)
\* a byte sequence placed at addresses 0, 1, ...
ImageOf(s) == [x \in 0..(Len(s) - 1) |-> s[x + 1]]

\* curated instructions
Chunks ==
    { <<144>>,          \* INC A
      <<128>>,          \* PUSH A
      <<137>>,          \* POP R0
      <<26, 255>>,      \* ST A, [0xFF]
      <<112, 0>>,       \* CALL 0
      <<120>>,          \* RET
      <<168>>,          \* HLT
      <<96, 0>>,        \* JMP 0
      <<10, 255>>,      \* LD R0, [0xFF]
      <<51, 255>>,      \* ADD [R0+0xFF]
      <<27, 255>> }     \* ST A, [R0+0xFF]

RECURSIVE ChunkSeqs(_)
ChunkSeqs(n) ==
    IF n = 0 THEN {<<>>}
    ELSE LET shorter == ChunkSeqs(n - 1)
         IN  shorter \cup {s \o k : s \in shorter, k \in Chunks}

\* the bytes that follow a probed opcode
OperandBytes == {0, 1, 128, 255}

ProbeImages == {<<o, x>> : o \in Byte, x \in OperandBytes}

Images == {ImageOf(s) : s \in ChunkSeqs(MaxChunks) \cup ProbeImages}

RunImages == {ImageOf(s) : s \in ChunkSeqs(MaxRunChunks) \cup ProbeImages}

(***************************************************************************)
(* CPU() then load_map(image), then the caller's choice of step() or run() *)
(***************************************************************************)
Init ==
    /\ a = 0 /\ r = [i \in {0, 1} |-> 0] /\ pc = 0
    /\ z = FALSE /\ c = FALSE
    /\ sp = 0 /\ stack = [i \in 0..(STACK_DEPTH - 1) |-> 0]
    /\ mem = [x \in Byte |-> 0]
    /\ loaded = {}
    /\ halted = FALSE /\ cycles = 0
    /\ out = <<>>
    /\ opcode = -1 /\ fault = "none" /\ ret = "none"
    /\ mode = "new" /\ max_cycles = 0 /\ runpc = "loop" /\ rc = -1
    /\ lines = <<>> /\ phase = "idle" /\ line_num = 0
    /\ symbols = <<>> /\ asm_pc = 0 /\ errors = <<>>
    /\ output = <<>> /\ listing = <<>>
    /\ pcs1 = <<>> /\ sizes1 = <<>>
    /\ asm_rc = -1 /\ crashed = FALSE /\ written = FALSE
    /\ obj_map = <<>> /\ obj_fmt = "none" /\ obj_text = "" /\ obj_stage = "none"
    /\ obj_result = [raised |-> FALSE, map |-> <<>>]

Load ==
    /\ mode = "new"
    /\ \E image \in Images :
          /\ mem' = LoadedMem(image)
          /\ loaded' = LoadedSet(image)
    /\ \/ mode' = "step" /\ max_cycles' = 0
       \/ mode' = "run" /\ max_cycles' \in 0..MaxCycles
    /\ UNCHANGED <<a, r, pc, z, c, sp, stack, halted, cycles,
                   out, opcode, fault, ret, runpc, rc>>
    /\ UNCHANGED <<asm, obj>>

(***************************************************************************)
(* The sources the assembler is run on                                     *)
(***************************************************************************)
\* one instruction or directive per source: every register, operand form and
\* fixed opcode, the malformed forms, and raw opcode bytes

SingleLines ==
    { "LD A, #5",
      "LD A, R0",
      "LD A, R1",
      "LD A, A",
      "LD A, [0x80]",
      "LD A, [R0+1]",
      "LD A, [R1+2]",
      "LD A, [R0]",
      "LD A, 7",
      "LD R0, #5",
      "LD R0, R0",
      "LD R0, R1",
      "LD R0, A",
      "LD R0, [0x80]",
      "LD R0, [R0+1]",
      "LD R0, [R1+2]",
      "LD R0, [R0]",
      "LD R0, 7",
      "LD R1, #5",
      "LD R1, R0",
      "LD R1, R1",
      "LD R1, A",
      "LD R1, [0x80]",
      "LD R1, [R0+1]",
      "LD R1, [R1+2]",
      "LD R1, [R0]",
      "LD R1, 7",
      "ST A, #5",
      "ST A, R0",
      "ST A, R1",
      "ST A, A",
      "ST A, [0x80]",
      "ST A, [R0+1]",
      "ST A, [R1+2]",
      "ST A, [R0]",
      "ST A, 7",
      "ST R0, #5",
      "ST R0, R0",
      "ST R0, R1",
      "ST R0, A",
      "ST R0, [0x80]",
      "ST R0, [R0+1]",
      "ST R0, [R1+2]",
      "ST R0, [R0]",
      "ST R0, 7",
      "ST R1, #5",
      "ST R1, R0",
      "ST R1, R1",
      "ST R1, A",
      "ST R1, [0x80]",
      "ST R1, [R0+1]",
      "ST R1, [R1+2]",
      "ST R1, [R0]",
      "ST R1, 7",
      "ADD #5",
      "ADD R0",
      "ADD R1",
      "ADD A",
      "ADD [0x80]",
      "ADD [R0+1]",
      "ADD [R1+2]",
      "ADD [R0]",
      "ADD 7",
      "SUB #5",
      "SUB R0",
      "SUB R1",
      "SUB A",
      "SUB [0x80]",
      "SUB [R0+1]",
      "SUB [R1+2]",
      "SUB [R0]",
      "SUB 7",
      "AND #5",
      "AND R0",
      "AND R1",
      "AND A",
      "AND [0x80]",
      "AND [R0+1]",
      "AND [R1+2]",
      "AND [R0]",
      "AND 7",
      "OR #5",
      "OR R0",
      "OR R1",
      "OR A",
      "OR [0x80]",
      "OR [R0+1]",
      "OR [R1+2]",
      "OR [R0]",
      "OR 7",
      "XOR #5",
      "XOR R0",
      "XOR R1",
      "XOR A",
      "XOR [0x80]",
      "XOR [R0+1]",
      "XOR [R1+2]",
      "XOR [R0]",
      "XOR 7",
      "CMP #5",
      "CMP R0",
      "CMP R1",
      "CMP A",
      "CMP [0x80]",
      "CMP [R0+1]",
      "CMP [R1+2]",
      "CMP [R0]",
      "CMP 7",
      "JMP 0x10",
      "CALL 0x10",
      "BZ 2",
      "BNZ 2",
      "BC 2",
      "BNC 2",
      "RET",
      "NOP",
      "HLT",
      "PUSH A",
      "PUSH R0",
      "PUSH R1",
      "POP A",
      "POP R0",
      "POP R1",
      "INC A",
      "INC R0",
      "INC R1",
      "DEC A",
      "DEC R0",
      "DEC R1",
      "PUSH",
      "PUSH R2",
      "INC",
      "NOP 5",
      "FOO",
      "LD A",
      "LD",
      "ADD",
      "JMP",
      "JMP R0",
      "ld a, #0b101",
      "  add r0 ; c",
      "LD A, #-1",
      "LD A, #300",
      "LD A, #K",
      "ST A, #K",
      "LD R0, [R1+K]",
      "BZ 200",
      "BZ",
      "CALL",
      "x: hlt",
      "9: NOP",
      "LD A, #0x",
      "LD A, [R0 + 0x10]",
      "LD A, [r1]",
      "ADD [K]",
      "HLT ; stop",
      "",
      "; only",
      "L:",
      ".ORG",
      ".ORG 300",
      ".ORG K",
      ".EQU",
      ".EQU K",
      ".EQU K, J",
      ".DB",
      ".DB 300",
      ".DB -1",
      ".DB K",
      ".DB \"a,b\"",
      ".DB 'A'",
      ".DS",
      ".DS \"a\\qb\"",
      ".DS \"\"",
      ".DS abc",
      ".DS \"a;b\"",
      ".DB \",\"",
      ".DB \"a,\"",
      ".DB 1,,2",
      ".DB \"a\"b",
      ".DS 'a'",
      ".DB 'H','i',0",
      ".DB 0xFF",
      ".DB 0x84",
      ".DB 0x8C",
      ".DB 0x8B, 0x93, 0x9B, 0x83",
      ".DB 0x18, 0",
      ".DB 0x20, 0",
      ".DB 0x28, 0",
      ".DB 0x1C, 0",
      ".DB 0x24, 0",
      ".DB 0x2C, 0" }

\* the lines short sources are built from

LinePool ==
    { "L: NOP",
      "JMP L",
      "BZ L",
      ".ORG 0x10",
      ".EQU L, 3",
      ".DB 1, 'ab', 0x41",
      ".DS \"a\\n\"",
      "LD A, #L",
      "HLT",
      "ST A, [0xFF]",
      "CALL L",
      "INC A" }

\* whole programs

Programs ==
    { <<"LD A, #1", "LD R0, #2", "LD R1, #3", "LD A, R0", "HLT">>,
      <<"LD A, #1", "LD R0, #2", "LD R1, #3", "LD A, R1", "HLT">>,
      <<"LD A, #1", "LD R0, #2", "LD R1, #3", "LD R0, A", "HLT">>,
      <<"LD A, #1", "LD R0, #2", "LD R1, #3", "LD R0, R1", "HLT">>,
      <<"LD A, #1", "LD R0, #2", "LD R1, #3", "LD R1, A", "HLT">>,
      <<"LD A, #1", "LD R0, #2", "LD R1, #3", "LD R1, R0", "HLT">>,
      <<"LD A, #1", "LD R0, #2", "LD R1, #3", "ST A, R0", "HLT">>,
      <<"LD A, #1", "LD R0, #2", "LD R1, #3", "ST A, R1", "HLT">>,
      <<"LD A, #1", "LD R0, #2", "LD R1, #3", "ST R0, A", "HLT">>,
      <<"LD A, #1", "LD R0, #2", "LD R1, #3", "ST R0, R1", "HLT">>,
      <<"LD A, #1", "LD R0, #2", "LD R1, #3", "ST R1, A", "HLT">>,
      <<"LD A, #1", "LD R0, #2", "LD R1, #3", "ST R1, R0", "HLT">>,
      <<"LD A, #6", "LD R0, #2", "LD R1, #3", "ADD R0", "HLT">>,
      <<"LD A, #6", "LD R0, #2", "LD R1, #3", "ADD R1", "HLT">>,
      <<"LD A, #6", "LD R0, #2", "LD R1, #3", "SUB R0", "HLT">>,
      <<"LD A, #6", "LD R0, #2", "LD R1, #3", "SUB R1", "HLT">>,
      <<"LD A, #6", "LD R0, #2", "LD R1, #3", "AND R0", "HLT">>,
      <<"LD A, #6", "LD R0, #2", "LD R1, #3", "AND R1", "HLT">>,
      <<"LD A, #6", "LD R0, #2", "LD R1, #3", "OR R0", "HLT">>,
      <<"LD A, #6", "LD R0, #2", "LD R1, #3", "OR R1", "HLT">>,
      <<"LD A, #6", "LD R0, #2", "LD R1, #3", "XOR R0", "HLT">>,
      <<"LD A, #6", "LD R0, #2", "LD R1, #3", "XOR R1", "HLT">>,
      <<"LD A, #6", "LD R0, #2", "LD R1, #3", "CMP R0", "HLT">>,
      <<"LD A, #6", "LD R0, #2", "LD R1, #3", "CMP R1", "HLT">>,
      <<"LD A, #5", "ADD #3", "ST A, [0xFF]", "HLT">>,
      <<"      LD R0, #0", "loop: LD A, [R0+msg]", "      CMP #0", "      BZ done", "      ST A, [0xFF]", "      INC R0", "      JMP loop", "done: HLT", "msg:  .DS \"Hi\"">>,
      <<"CALL F", "HLT", "F: LD A, #0x41", "ST A, [0xFF]", "RET">>,
      <<"LD A, #7", "PUSH A", "POP R0", "DEC R0", "ST R0, [0xFF]", "ST A, [0xFF]", "HLT">>,
      <<"LD A, #0", "CMP #0", "BZ Z", "NOP", "Z: BC X", "NOP", "X: BNZ Y", "BNC Y", "Y: HLT">>,
      <<"LD A, #200", "ADD #100", "BC C1", "HLT", "C1: SUB #45", "BNZ N1", "NOP", "N1: XOR #0xFF", "HLT">>,
      <<"L: JMP L">>,
      <<"L: CALL L">>,
      <<"PUSH A", "PUSH A", "PUSH A", "PUSH A", "PUSH A", "HLT">>,
      <<"INC A", "ST A, [0x80]", "LD R0, [0x80]", "LD R1, [0x90]", "ADD [0x90]", "HLT">>,
      <<"LD R0, #2", "LD A, [R0+0xFF]", "LD R1, #1", "ST A, [R1+0xFE]", "HLT">>,
      <<"INC A", "ST A, [0x80]", "LD R1, #1", "LD R0, [R1+0x7F]", "ADD [R1+0x7F]", "ST A, [R1+0xFE]", "HLT">>,
      <<".EQU IO, 0xFF", ".ORG 4", "S: LD A, #0x27", "ST A, [IO]", "HLT">>,
      <<"JMP S", ".ORG 0x20", "S: LD A, #0x2A", "ST A, [0xFF]", "HLT">>,
      <<".ORG 0xFF", "LD A, #1">>,
      <<".ORG 0xFF", "HLT">>,
      <<"A: NOP", "A: NOP">>,
      <<".EQU K, 1", ".EQU K, 2", "LD A, #K", "ST A, [0xFF]", "HLT">>,
      <<"LD A, #1", "ST A, #1", "HLT">>,
      <<"BZ 0x81">>,
      <<"BZ 0x82">>,
      <<".ORG 0x80", "BNZ 0">>,
      <<".ORG 0x7E", "BC 0">>,
      <<"L: INC A", "CMP #3", "BNZ L", "HLT">>,
      <<"BNC F", ".ORG 0x81", "F: HLT">>,
      <<"BNC F", ".ORG 0x82", "F: HLT">>,
      <<".ORG 0xF0", "BNC 260">>,
      <<".ORG 0xFE", "BNZ E", "E:">>,
      <<"CALL F", "HLT", "F: CALL G", "RET", "G: PUSH A", "POP R0", "RET">>,
      <<"LD A, #1", "PUSH A", "LD A, #2", "PUSH A", "POP R0", "POP R1", "HLT">>,
      <<"INC A", "PUSH A", "INC A", "PUSH A", "INC A", "PUSH A", "INC A", "PUSH A", "POP R0", "POP R1", "POP A", "POP R0", "HLT">>,
      <<".ORG 0xFF", "HLT", "END:">>,
      <<".ORG 300", "L:">>,
      <<"K: NOP", ".EQU K, 5", "LD A, #K">>,
      <<".EQU K, 5", "K: NOP">>,
      <<".ORG -1", ".DB 1, 2">>,
      <<".ORG -1", "NOP">>,
      <<".ORG 300", "NOP">>,
      <<".ORG 0xFE", ".DB 1, 2, 3">>,
      <<".EQU K, 5", "ADD K", "LD R0, K", "ST A, K", "HLT">>,
      <<"CMP U", "LD A, U", "ST R1, U">>,
      <<".ORG 0", " LD R0,#5", " LD A,#0", "L: ADD R0", " DEC R0", " BNZ L",
        " ST A,[0xFF]", " HLT">>,
      <<".ORG 0", " LD R0,#0x10", " .ORG 0x10", " .DB 'H','i',0", " .ORG 3",
        "L: LD A,[R0+0]", " CMP #0", " BZ D", " ST A,[0xFF]", " INC R0",
        " JMP L", "D: HLT">>,
      <<".ORG 0", " CALL S", " HLT", "S: LD A,#'X'", " ST A,[0xFF]", " RET">>,
      <<".ORG 0", " CALL S", " HLT", "S: LD A,#0x58", " ST A,[0xFF]", " RET">>,
      <<"ST A, #5", "L: NOP", "JMP L">>,
      <<".DB \"a\\nb\"", ".DS \"a\\nb\"">>,
      <<".EQU K, 5", ".ORG K", "L: NOP", ".EQU K, 9", "JMP L">>,
      <<"INC A", "ST A, [4]", "NOP">>,
      <<"LD A, #0xA8", "ST A, [4]", "NOP">> }

\* the sources of at most n lines of the pool
RECURSIVE PoolSeqs(_)
PoolSeqs(n) ==
    IF n = 0 THEN {<<>>}
    ELSE PoolSeqs(n - 1)
         \cup {Append(s, l) : s \in {t \in PoolSeqs(n - 1) : Len(t) = n - 1},
                               l \in LinePool}

Sources == {<<l>> : l \in SingleLines} \cup Programs \cup PoolSeqs(MaxLines)

(***************************************************************************)
(* assembler.py: the Assembler object and main().  One action per line of  *)
(* each pass, one per pass boundary, one for main()'s exit.                *)
(***************************************************************************)
\* Assembler.error: the message is recorded with its line number
Err(n, msg) == [line |-> n, msg |-> msg]

ErrsAt(n, msgs) == [i \in 1..Len(msgs) |-> Err(n, msgs[i])]

\* an exception that nothing catches ends the process with status 1
AsmCrash ==
    /\ phase' = "exited" /\ crashed' = TRUE /\ asm_rc' = 1
    /\ UNCHANGED <<lines, line_num, symbols, asm_pc, errors, output, listing,
                   pcs1, sizes1, written>>

\* main() reads the source; Assembler(); assemble() splits it into lines and
\* enters pass1 with self.pc = 0
AsmStart ==
    /\ phase = "idle" /\ mode = "new"
    /\ \E text \in Sources :
          lines' = text
    /\ phase' = "pass1" /\ line_num' = 1
    /\ symbols' = <<>> /\ asm_pc' = 0 /\ errors' = <<>>
    /\ UNCHANGED <<output, listing, pcs1, sizes1, asm_rc, crashed, written>>
    /\ UNCHANGED <<sim, obj>>

\* pass1's work on one line: [symbols, pc, errs, size, crash]; size is -1
\* when pass1 does not call instruction_size
pass1_line(raw_line, syms, pcv, n) ==
    LET R(sy, pcn, er, sz) ==
            [symbols |-> sy, pc |-> pcn, errs |-> er, size |-> sz, crash |-> FALSE]
        Raised == [symbols |-> syms, pc |-> pcv, errs |-> <<>>, size |-> -1,
                   crash |-> TRUE]
        org(val, syms1, errs1) ==
            IF val.k = "raise" THEN Raised
            ELSE IF val.k = "none"
            THEN R(syms1, pcv, errs1 \o <<Err(n, "Invalid .ORG address")>>, -1)
            ELSE R(syms1, val.n, errs1, -1)
        equ_value(name, val, syms1, errs1) ==
            IF val.k = "raise" THEN Raised
            ELSE IF val.k = "none"
            THEN R(syms1, pcv, errs1 \o <<Err(n, "Invalid .EQU value")>>, -1)
            ELSE R((name :> val.n) @@ syms1, pcv, errs1, -1)
        equ(parts, syms1, errs1) ==
            IF Len(parts) = 2
            THEN equ_value(strip(parts[1]), parse_number(strip(parts[2]), syms1),
                           syms1, errs1)
            ELSE R(syms1, pcv, errs1 \o <<Err(n, "Invalid .EQU syntax")>>, -1)
        sized(size, syms1, errs1) ==
            IF size.k = "raise" THEN Raised
            ELSE R(syms1, pcv + size.n, errs1, size.n)
        statement(p, syms1, errs1) ==
            IF p.mnemonic = None THEN R(syms1, pcv, errs1, -1)
            ELSE IF p.mnemonic[1] = ".ORG"
            THEN org(IF Truthy(p.operand_text)
                     THEN parse_number(p.operand_text[1], syms1)
                     ELSE [k |-> "none", n |-> 0],
                     syms1, errs1)
            ELSE IF p.mnemonic[1] = ".EQU"
            THEN IF Truthy(p.operand_text)
                 THEN equ(split_comma1(p.operand_text[1]), syms1, errs1)
                 ELSE R(syms1, pcv, errs1, -1)
            ELSE sized(instruction_size(p.mnemonic[1], p.operand_text), syms1, errs1)
        labelled(p) ==
            IF Truthy(p.label)
            THEN IF p.label[1] \in DOMAIN syms
                 THEN statement(p, syms, <<Err(n, "Duplicate label")>>)
                 ELSE statement(p, (p.label[1] :> pcv) @@ syms, <<>>)
            ELSE statement(p, syms, <<>>)
    IN  labelled(parse_line(raw_line))

Pass1Line ==
    /\ phase = "pass1" /\ line_num <= Len(lines)
    /\ LET apply(res) ==
               IF res.crash
               THEN AsmCrash
               ELSE /\ symbols' = res.symbols
                    /\ asm_pc' = res.pc
                    /\ errors' = errors \o res.errs
                    /\ pcs1' = Append(pcs1, asm_pc)
                    /\ sizes1' = Append(sizes1, res.size)
                    /\ line_num' = line_num + 1
                    /\ UNCHANGED <<lines, phase, output, listing, asm_rc, crashed,
                                   written>>
       IN  apply(pass1_line(lines[line_num], symbols, asm_pc, line_num))
    /\ UNCHANGED <<sim, obj>>

\* pass1 is over: assemble() returns (None, None) on errors, else enters pass2
Pass1End ==
    /\ phase = "pass1" /\ line_num > Len(lines)
    /\ IF errors # <<>>
       THEN /\ phase' = "assembled"
            /\ UNCHANGED <<line_num, asm_pc>>
       ELSE /\ phase' = "pass2"
            /\ line_num' = 1 /\ asm_pc' = 0
    /\ UNCHANGED <<lines, symbols, errors, output, listing, pcs1, sizes1,
                   asm_rc, crashed, written>>
    /\ UNCHANGED <<sim, obj>>

\* a listing entry: (address or None, bytes, raw line)
Entry(addr, bytes, raw_line) == [addr |-> addr, bytes |-> bytes, raw |-> raw_line]

Pass2Line ==
    /\ phase = "pass2" /\ line_num <= Len(lines)
    /\ LET skip(raw_line) ==
               /\ listing' = Append(listing, Entry(None, <<>>, raw_line))
               /\ line_num' = line_num + 1
               /\ UNCHANGED <<lines, phase, symbols, asm_pc, errors, output,
                              pcs1, sizes1, asm_rc, crashed, written>>
           org(raw_line, val) ==
               IF val.k = "raise" THEN AsmCrash
               ELSE /\ asm_pc' = IF val.k = "int" THEN val.n ELSE asm_pc
                    /\ listing' = Append(listing, Entry(Some(asm_pc'), <<>>, raw_line))
                    /\ line_num' = line_num + 1
                    /\ UNCHANGED <<lines, phase, symbols, errors, output,
                                   pcs1, sizes1, asm_rc, crashed, written>>
           emit(raw_line, start_pc, res) ==
               IF res.crash THEN AsmCrash
               ELSE /\ output' = write_emitted(output, res.emitted, start_pc, 1)
                    /\ errors' = errors \o ErrsAt(line_num, res.errs)
                           \o (IF exceeds_memory(res.emitted, start_pc)
                               THEN <<Err(line_num, "exceeds memory")>>
                               ELSE <<>>)
                    /\ listing' = Append(listing,
                                         Entry(Some(start_pc), res.emitted, raw_line))
                    /\ asm_pc' = start_pc + Len(res.emitted)
                    /\ line_num' = line_num + 1
                    /\ UNCHANGED <<lines, phase, symbols, pcs1, sizes1,
                                   asm_rc, crashed, written>>
           statement(raw_line, p) ==
               IF p.mnemonic = None \/ p.mnemonic[1] = ".EQU"
               THEN skip(raw_line)
               ELSE IF p.mnemonic[1] = ".ORG"
               THEN org(raw_line,
                        IF Truthy(p.operand_text)
                        THEN parse_number(p.operand_text[1], symbols)
                        ELSE [k |-> "int", n |-> 0])
               ELSE emit(raw_line, asm_pc,
                         pass2_emit(p.mnemonic[1], p.operand_text, symbols, asm_pc))
       IN  statement(lines[line_num], parse_line(lines[line_num]))
    /\ UNCHANGED <<sim, obj>>

\* pass2 returns (output, listing)
Pass2End ==
    /\ phase = "pass2" /\ line_num > Len(lines)
    /\ phase' = "assembled"
    /\ UNCHANGED <<lines, line_num, symbols, asm_pc, errors, output, listing,
                   pcs1, sizes1, asm_rc, crashed, written>>
    /\ UNCHANGED <<sim, obj>>

\* generate_bin: the image from address 0 to the highest address, zero filled
\* (a sequence; element i + 1 is the byte at address i)
generate_bin(outp) ==
    IF DOMAIN outp = {} THEN <<>>
    ELSE LET max_addr == CHOOSE m \in DOMAIN outp : \A x \in DOMAIN outp : x <= m
         IN  [i \in 1..(max_addr + 1) |->
                 IF (i - 1) \in DOMAIN outp THEN outp[i - 1]
                 ELSE IF (i - 1) - (max_addr + 1) \in DOMAIN outp
                 THEN outp[(i - 1) - (max_addr + 1)]
                 ELSE 0]

\* bytearray(max_addr + 1) or buf[addr] raises
generate_bin_raises(outp) ==
    /\ DOMAIN outp # {}
    /\ LET max_addr == CHOOSE m \in DOMAIN outp : \A x \in DOMAIN outp : x <= m
       IN  \/ max_addr + 1 < 0
           \/ \E x \in DOMAIN outp : x < 0 /\ x + max_addr + 1 < 0

\* parse_bin: {i: b for i, b in enumerate(data) if i < 256}
parse_bin(data) ==
    [x \in {i \in 0..(Len(data) - 1) : i < 256} |-> data[x + 1]]

(***************************************************************************)
(* Intel HEX and Motorola S-record object files: the assembler's           *)
(* generators and the simulator's parsers.  A file is its text, with "\n"  *)
(* after every line.                                                       *)
(***************************************************************************)
\* sum() of a list of bytes
RECURSIVE sum(_)
sum(bytes) == IF bytes = <<>> THEN 0 ELSE Head(bytes) + sum(Tail(bytes))

\* "".join(f"{b:02X}" for b in bytes), for bytes in 0..255
RECURSIVE hexstr(_)
hexstr(bytes) ==
    LET digits == "0123456789ABCDEF"
        pair(b) == Ch(digits, (b \div 16) + 1) \o Ch(digits, (b % 16) + 1)
    IN  IF bytes = <<>> THEN "" ELSE pair(Head(bytes)) \o hexstr(Tail(bytes))

\* a record loop that cuts the runs after 17 bytes
RECURSIVE data_records_17(_, _)
data_records_17(outp, lo) ==
    LET rest == {x \in DOMAIN outp : x >= lo}
        run(base) ==
            CHOOSE n \in 1..17 :
               /\ \A i \in 0..(n - 1) : base + i \in DOMAIN outp
               /\ n = 17 \/ base + n \notin DOMAIN outp
        record(base, n) ==
            <<[base |-> base, data |-> [i \in 1..n |-> outp[base + i - 1]]]>>
                \o data_records_17(outp, base + n)
        from(base) == record(base, run(base))
    IN  IF rest = {} THEN <<>>
        ELSE from(CHOOSE x \in rest : \A y \in rest : x <= y)

\* the record loop of both generators: from the lowest address not below lo,
\* the runs of contiguous addresses, cut after 16 bytes, as (base, data)
RECURSIVE data_records(_, _)
data_records(outp, lo) ==
    LET rest == {x \in DOMAIN outp : x >= lo}
        run(base) ==
            CHOOSE n \in 1..16 :
               /\ \A i \in 0..(n - 1) : base + i \in DOMAIN outp
               /\ n = 16 \/ base + n \notin DOMAIN outp
        record(base, n) ==
            <<[base |-> base, data |-> [i \in 1..n |-> outp[base + i - 1]]]>>
                \o data_records(outp, base + n)
        from(base) == record(base, run(base))
    IN  IF rest = {} THEN <<>>
        ELSE from(CHOOSE x \in rest : \A y \in rest : x <= y)

\* generate_hex: one data record per run, then the EOF record
generate_hex(outp) ==
    LET recs == data_records(outp, 0)
        line(rec) ==
            LET record == <<Len(rec.data), (rec.base \div 256) % 256,
                            rec.base % 256, 0>> \o rec.data
                checksum == (0 - sum(record)) % 256
            IN  ":" \o hexstr(record) \o hexstr(<<checksum>>) \o "\n"
        RECURSIVE joined(_)
        joined(k) == IF k > Len(recs) THEN "" ELSE line(recs[k]) \o joined(k + 1)
    IN  IF DOMAIN outp = {} THEN ":00000001FF\n"
        ELSE joined(1) \o ":00000001FF\n"

\* generate_srec: the S0 header, one S1 record per run, then the S9 record
generate_srec(outp) ==
    LET recs == data_records(outp, 0)
        line(type, rec_bytes) ==
            type \o hexstr(rec_bytes) \o hexstr(<<(0 - sum(rec_bytes) - 1) % 256>>)
                 \o "\n"
        header_data == <<69, 68, 85, 45, 67, 80, 85>>
        s1(rec) ==
            line("S1", <<2 + Len(rec.data) + 1, (rec.base \div 256) % 256,
                         rec.base % 256>> \o rec.data)
        RECURSIVE joined(_)
        joined(k) == IF k > Len(recs) THEN "" ELSE s1(recs[k]) \o joined(k + 1)
    IN  line("S0", <<2 + 1 + Len(header_data), 0, 0>> \o header_data)
        \o joined(1)
        \o line("S9", <<3, 0, 0>>)

\* text.splitlines(), for texts whose only line break is "\n"
RECURSIVE splitlines(_)
splitlines(text) ==
    IF text = "" THEN <<>>
    ELSE IF IndexIn(text, "\n") = 0 THEN <<text>>
    ELSE <<SubSeq(text, 1, IndexIn(text, "\n") - 1)>>
            \o splitlines(From(text, IndexIn(text, "\n")))

\* bytes.fromhex that takes lower-case digits only
RECURSIVE fromhex_lower_only(_)
fromhex_lower_only(s) ==
    LET val(ch) == IndexIn(HEXDIGITS, ch) - 1
        cons(b, rest) ==
            IF rest.ok THEN [ok |-> TRUE, bytes |-> <<b>> \o rest.bytes] ELSE rest
    IN  IF s = "" THEN [ok |-> TRUE, bytes |-> <<>>]
        ELSE IF IsSpace(Head(s)) THEN fromhex_lower_only(Tail(s))
        ELSE IF Len(s) >= 2 /\ val(Ch(s, 1)) >= 0 /\ val(Ch(s, 2)) >= 0
        THEN cons(16 * val(Ch(s, 1)) + val(Ch(s, 2)), fromhex_lower_only(From(s, 2)))
        ELSE [ok |-> FALSE, bytes |-> <<>>]

\* bytes.fromhex: pairs of hex digits of either case, white space allowed
\* between pairs; ok is FALSE when it raises ValueError
RECURSIVE fromhex(_)
fromhex(s) ==
    LET val(ch) == IndexIn(HEXDIGITS, LowerCh(ch)) - 1
        cons(b, rest) ==
            IF rest.ok THEN [ok |-> TRUE, bytes |-> <<b>> \o rest.bytes] ELSE rest
    IN  IF s = "" THEN [ok |-> TRUE, bytes |-> <<>>]
        ELSE IF IsSpace(Head(s)) THEN fromhex(Tail(s))
        ELSE IF Len(s) >= 2 /\ val(Ch(s, 1)) >= 0 /\ val(Ch(s, 2)) >= 0
        THEN cons(16 * val(Ch(s, 1)) + val(Ch(s, 2)), fromhex(From(s, 2)))
        ELSE [ok |-> FALSE, bytes |-> <<>>]

\* parse_hex without the test of the checksum
parse_hex_unchecked(text) ==
    LET Raised == [raised |-> TRUE, map |-> <<>>]
        store(result, addr, data) ==
            [x \in DOMAIN result \cup
                   {y \in addr..(addr + Len(data) - 1) : y < 256} |->
                IF x \in addr..(addr + Len(data) - 1)
                THEN data[x - addr + 1] ELSE result[x]]
        RECURSIVE loop(_, _)
        loop(ls, result) ==
            LET record(raw, rest) ==
                    LET byte_count == raw[1]
                        addr == raw[2] * 256 + raw[3]
                        rec_type == raw[4]
                        data == SubSeq(raw, 5, Len(raw) - 1)
                    IN  IF Len(data) # byte_count THEN Raised
                        ELSE IF rec_type = 1 THEN [raised |-> FALSE, map |-> result]
                        ELSE IF rec_type = 0 THEN loop(rest, store(result, addr, data))
                        ELSE loop(rest, result)
                decoded(hex, rest) ==
                    IF ~hex.ok THEN Raised
                    ELSE IF Len(hex.bytes) < 5 THEN Raised
                    ELSE record(hex.bytes, rest)
                one(line, rest) ==
                    IF line = "" THEN loop(rest, result)
                    ELSE IF ~startswith(line, ":") THEN Raised
                    ELSE decoded(fromhex(From(line, 1)), rest)
            IN  IF ls = <<>> THEN [raised |-> FALSE, map |-> result]
                ELSE one(strip(Head(ls)), Tail(ls))
    IN  loop(splitlines(text), <<>>)

\* parse_hex: [raised, map]; raised when the function ends with an exception
parse_hex(text) ==
    LET Raised == [raised |-> TRUE, map |-> <<>>]
        store(result, addr, data) ==
            [x \in DOMAIN result \cup
                   {y \in addr..(addr + Len(data) - 1) : y < 256} |->
                IF x \in addr..(addr + Len(data) - 1)
                THEN data[x - addr + 1] ELSE result[x]]
        RECURSIVE loop(_, _)
        loop(ls, result) ==
            LET record(raw, rest) ==
                    LET byte_count == raw[1]
                        addr == raw[2] * 256 + raw[3]
                        rec_type == raw[4]
                        data == SubSeq(raw, 5, Len(raw) - 1)
                        checksum == raw[Len(raw)]
                        calc == (0 - sum(SubSeq(raw, 1, Len(raw) - 1))) % 256
                    IN  IF calc # checksum THEN Raised
                        ELSE IF Len(data) # byte_count THEN Raised
                        ELSE IF rec_type = 1 THEN [raised |-> FALSE, map |-> result]
                        ELSE IF rec_type = 0 THEN loop(rest, store(result, addr, data))
                        ELSE loop(rest, result)
                decoded(hex, rest) ==
                    IF ~hex.ok THEN Raised
                    ELSE IF Len(hex.bytes) < 5 THEN Raised
                    ELSE record(hex.bytes, rest)
                one(line, rest) ==
                    IF line = "" THEN loop(rest, result)
                    ELSE IF ~startswith(line, ":") THEN Raised
                    ELSE decoded(fromhex(From(line, 1)), rest)
            IN  IF ls = <<>> THEN [raised |-> FALSE, map |-> result]
                ELSE one(strip(Head(ls)), Tail(ls))
    IN  loop(splitlines(text), <<>>)

\* parse_srec: [raised, map]; raised when the function ends with an
\* exception, the IndexError of line[1], raw[1] and raw[2] included
parse_srec(text) ==
    LET Raised == [raised |-> TRUE, map |-> <<>>]
        store(result, addr, data) ==
            [x \in DOMAIN result \cup
                   {y \in addr..(addr + Len(data) - 1) : y < 256} |->
                IF x \in addr..(addr + Len(data) - 1)
                THEN data[x - addr + 1] ELSE result[x]]
        RECURSIVE loop(_, _)
        loop(ls, result) ==
            LET record(rec_type, raw, rest) ==
                    LET byte_count == raw[1]
                        calc == (0 - sum(SubSeq(raw, 1, Len(raw) - 1)) - 1) % 256
                    IN  IF Len(raw) # byte_count + 1 THEN Raised
                        ELSE IF calc # raw[Len(raw)] THEN Raised
                        ELSE IF rec_type = "0" THEN loop(rest, result)
                        ELSE IF rec_type = "1"
                        THEN IF Len(raw) < 3 THEN Raised
                             ELSE loop(rest, store(result, raw[2] * 256 + raw[3],
                                                   SubSeq(raw, 4, Len(raw) - 1)))
                        ELSE IF rec_type = "9" THEN [raised |-> FALSE, map |-> result]
                        ELSE loop(rest, result)
                decoded(rec_type, hex, rest) ==
                    IF ~hex.ok THEN Raised
                    ELSE IF Len(hex.bytes) < 1 THEN Raised
                    ELSE record(rec_type, hex.bytes, rest)
                one(line, rest) ==
                    IF line = "" THEN loop(rest, result)
                    ELSE IF ~startswith(line, "S") THEN Raised
                    ELSE IF Len(line) < 2 THEN Raised
                    ELSE decoded(Ch(line, 2), fromhex(From(line, 2)), rest)
            IN  IF ls = <<>> THEN [raised |-> FALSE, map |-> result]
                ELSE one(strip(Head(ls)), Tail(ls))
    IN  loop(splitlines(text), <<>>)

\* main() after assemble(): report the errors and exit 1, or write the
\* object file and the listing
MainExit ==
    /\ phase = "assembled"
    /\ IF errors # <<>>
       THEN /\ asm_rc' = 1 /\ written' = FALSE /\ crashed' = FALSE
       ELSE IF generate_bin_raises(output)
       THEN /\ asm_rc' = 1 /\ written' = FALSE /\ crashed' = TRUE
       ELSE /\ asm_rc' = 0 /\ written' = TRUE /\ crashed' = FALSE
    /\ phase' = "exited"
    /\ UNCHANGED <<lines, line_num, symbols, asm_pc, errors, output, listing,
                   pcs1, sizes1>>
    /\ UNCHANGED <<sim, obj>>

\* simulator main() on the object file the assembler wrote, a raw binary
\* (the default --format) or an Intel HEX file: CPU(),
\* load_map(parse_file(path)), run(max_cycles)
LoadBin ==
    /\ phase = "exited" /\ written /\ mode = "new"
    /\ \E image \in {parse_bin(generate_bin(output)),
                      parse_hex(generate_hex(output)).map} :
           /\ mem' = LoadedMem(image)
           /\ loaded' = LoadedSet(image)
    /\ mode' = "run" /\ max_cycles' = RunCycles
    /\ UNCHANGED <<a, r, pc, z, c, sp, stack, halted, cycles,
                   out, opcode, fault, ret, runpc, rc>>
    /\ UNCHANGED <<asm, obj>>

Next == Load \/ Step \/ RunLoopExit \/ RunReturn

Spec == Init /\ [][Next]_vars

\* run() alone, on the shorter images: its loop keeps running until it
\* returns, which is the fairness that termination needs
LoadRun ==
    /\ mode = "new"
    /\ \E image \in RunImages :
          /\ mem' = LoadedMem(image)
          /\ loaded' = LoadedSet(image)
    /\ mode' = "run" /\ max_cycles' \in 0..MaxCycles
    /\ UNCHANGED <<a, r, pc, z, c, sp, stack, halted, cycles,
                   out, opcode, fault, ret, runpc, rc>>
    /\ UNCHANGED <<asm, obj>>

\* what run() does by itself once it has been called
RunProgress ==
    \/ StepUnloaded \/ StepLD \/ StepST \/ StepALU \/ StepJMP \/ StepBranch
    \/ StepCALL \/ StepRET \/ StepPUSH \/ StepPOP \/ StepINC \/ StepDEC
    \/ StepNOP \/ StepHLT \/ StepInvalid
    \/ RunLoopExit \/ RunReturn

NextRun == LoadRun \/ RunProgress

LiveSpec == Init /\ [][NextRun]_vars /\ WF_vars(RunProgress)

\* step() on arithmetic: LD A, #x, then the source s put in place, then ADD,
\* SUB or CMP reading s as an immediate, from R0 or R1, from memory at an
\* address, or from memory at R0 or R1 plus an offset that may wrap, then HLT;
\* and LD A, #200, ADD #0 or #100 (carry clear or set), LD reg, #x, then
\* INC reg or DEC reg, then HLT; and LD A, #200, ADD #0, #56 or #100 (no
\* flag, Z and C, or C alone), then any opcode byte o with the byte x after
\* it, then HLT
AluImages ==
    LET values == {0, 1, 2, 15, 16, 100, 127, 128, 129, 156, 200, 240, 254, 255}
        index == {0, 3, 250}
        ops == {48, 56, 88}
    IN  {ImageOf(<<0, x, o, s, 168>>) : x \in Byte, s \in values, o \in ops}
        \cup {ImageOf(<<0, x, 8 + 8 * rb, s, o + 4 * rb + 1, 168>>) :
                 x \in values, s \in values, o \in ops, rb \in {0, 1}}
        \cup {ImageOf(<<0, x, o + 2, 5, 168, s>>) :
                 x \in values, s \in values, o \in ops}
        \cup {ImageOf(<<0, x, 8 + 8 * rb, k, o + 4 * rb + 3, (7 - k) % 256,
                        168, s>>) :
                 x \in values, s \in values, o \in ops, rb \in {0, 1},
                 k \in index}
        \cup {ImageOf(<<0, 200, 48, s, 8 * code, x, o + code, 168>>) :
                 x \in Byte, s \in {0, 100}, o \in {144, 152}, code \in 0..2}
        \cup {ImageOf(<<0, 200, 48, s, o, x, 168>>) :
                 s \in {0, 56, 100}, o \in Byte, x \in OperandBytes}

LoadAlu ==
    /\ mode = "new"
    /\ \E image \in AluImages :
          /\ mem' = LoadedMem(image)
          /\ loaded' = LoadedSet(image)
    /\ mode' = "step" /\ max_cycles' = 0
    /\ UNCHANGED <<a, r, pc, z, c, sp, stack, halted, cycles,
                   out, opcode, fault, ret, runpc, rc>>
    /\ UNCHANGED <<asm, obj>>

NextAlu == LoadAlu \/ Step

AluSpec == Init /\ [][NextAlu]_vars

(***************************************************************************)
(* Object files: a map is written as Intel HEX or S-record text, the text  *)
(* may reach the simulator changed, and the simulator parses it            *)
(***************************************************************************)
\* address sets (empty, single, gaps, runs of 16, 17 and 33, the top of
\* memory) filled with constant, counting and scattered byte values
ObjMaps ==
    LET domains == { {}, {0}, {255}, {0, 2}, 0..15, 0..16, 10..42,
                     254..255, 240..255, {5} \cup (20..37) }
        fills == { <<0, 0>>, <<0, 255>>, <<1, 0>>, <<37, 11>> }
    IN  { [x \in d |-> (x * f[1] + f[2]) % 256] : d \in domains, f \in fills }

\* what may have happened to an object text before the simulator reads it:
\* one line's checksum digit changed, one line's byte count raised by one
\* with the checksum lowered to match, records added after the terminator,
\* and records added before it that reach past address 255
ObjTexts(text, fmt) ==
    LET ls == splitlines(text)
        skip == IF fmt = "hex" THEN 1 ELSE 2
        RECURSIVE join(_)
        join(s) == IF s = <<>> THEN "" ELSE Head(s) \o "\n" \o join(Tail(s))
        other(ch) == IF ch = "0" THEN "1" ELSE "0"
        bad_checksum(line) ==
            SubSeq(line, 1, Len(line) - 1) \o other(Ch(line, Len(line)))
        recount(raw) ==
            [raw EXCEPT ![1] = (@ + 1) % 256, ![Len(raw)] = (@ - 1) % 256]
        bad_count(line) ==
            SubSeq(line, 1, skip) \o hexstr(recount(fromhex(From(line, skip)).bytes))
        extra == IF fmt = "hex"
                 THEN {":0100000041BE\n", ":0100000041BF\n", "junk\n"}
                 ELSE {"S1040000FFFC\n", "S1040000FFFD\n", "junk\n"}
        high == IF fmt = "hex"
                THEN {":0400FE0001020304F4", ":02010000AAAAA9"}
                ELSE {"S10700FE01020304F0", "S1050100AAAAA5"}
    IN  {join([ls EXCEPT ![k] = bad_checksum(@)]) : k \in 1..Len(ls)}
        \cup {join([ls EXCEPT ![k] = bad_count(@)]) : k \in 1..Len(ls)}
        \cup {text \o e : e \in extra}
        \cup {join(SubSeq(ls, 1, Len(ls) - 1) \o <<h, ls[Len(ls)]>>) : h \in high}

\* assembler main() with --format hex or --format srec
GenerateObj ==
    /\ obj_stage = "none" /\ mode = "new" /\ phase = "idle"
    /\ \E m \in ObjMaps, fmt \in {"hex", "srec"} :
          /\ obj_map' = m
          /\ obj_fmt' = fmt
          /\ obj_text' = IF fmt = "hex" THEN generate_hex(m) ELSE generate_srec(m)
    /\ obj_stage' = "written"
    /\ UNCHANGED <<obj_result, sim, asm>>

\* the file is changed on its way to the simulator
GiveObj ==
    /\ obj_stage = "written"
    /\ obj_text' \in ObjTexts(obj_text, obj_fmt)
    /\ obj_stage' = "given"
    /\ UNCHANGED <<obj_map, obj_fmt, obj_result, sim, asm>>

\* parse_file: the parser of the file's format
ParseObj ==
    /\ obj_stage \in {"written", "given"}
    /\ obj_result' = IF obj_fmt = "hex" THEN parse_hex(obj_text)
                     ELSE parse_srec(obj_text)
    /\ obj_stage' = "parsed"
    /\ UNCHANGED <<obj_map, obj_fmt, obj_text, sim, asm>>

NextObj == GenerateObj \/ GiveObj \/ ParseObj

ObjSpec == Init /\ [][NextObj]_vars

\* assemble a source, then run what was assembled.  run() never calls step()
\* on a halted CPU, so StepHalted is not part of it
NextAsm ==
    \/ AsmStart \/ Pass1Line \/ Pass1End \/ Pass2Line \/ Pass2End \/ MainExit
    \/ LoadBin
    \/ StepUnloaded \/ StepLD \/ StepST \/ StepALU \/ StepJMP \/ StepBranch
    \/ StepCALL \/ StepRET \/ StepPUSH \/ StepPOP \/ StepINC \/ StepDEC
    \/ StepNOP \/ StepHLT \/ StepInvalid
    \/ RunLoopExit \/ RunReturn

AsmSpec == Init /\ [][NextAsm]_vars

C2_UndecodedBytesFault ==
    [][ ( /\ Fetching
          /\ \/ /\ iiiii(op) \in {16, 17, 18, 19}
                /\ (r_bit(op) = 1 \/ mm(op) = 3)
             \/ Dispatch(op) = "invalid" )
        => ( /\ fault' \in {"invalid_opcode", "invalid_push", "invalid_pop",
                            "invalid_inc", "invalid_dec"}
             /\ UNCHANGED <<a, r, z, c, sp, stack>> )
      ]_vars

\* the byte 0x84 (PUSH group, bit 2 set) was executed as PUSH A
C2_Bit2PushExecuted == opcode = 132 /\ fault = "none" /\ sp = 1 /\ cycles = 1

\* C3: when run() executes HLT without an earlier fault and HLT is at most
\* the max_cycles-th instruction, run() returns 0
C3_HaltReturnsZero ==
    (mode = "run" /\ runpc = "returned" /\ halted /\ cycles <= max_cycles)
        => rc = 0

\* HLT was the max_cycles-th instruction and run() returned 1
C3_HaltAtCapReturnsOne ==
    /\ mode = "run" /\ runpc = "returned" /\ halted /\ fault = "none"
    /\ cycles = max_cycles /\ rc = 1

\* C4: run() terminates; it executes at most max_cycles instructions; when
\* it returns with the program neither halted nor faulted, max_cycles
\* instructions were executed and the return value is 1
C4_RunTerminates ==
    /\ [](mode = "run" => cycles <= max_cycles)
    /\ []((mode = "run" /\ runpc = "returned" /\ ~halted /\ fault = "none")
             => (cycles = max_cycles /\ rc = 1))
    /\ (mode = "run") ~> (runpc = "returned")

\* a looping program was stopped at the cap
C4_StoppedAtCap ==
    /\ mode = "run" /\ runpc = "returned" /\ ~halted /\ fault = "none"
    /\ max_cycles = MaxCycles /\ cycles = MaxCycles /\ rc = 1

\* C5: a step() that starts on a non-halted CPU with PC at an unloaded
\* address raises "PC entered unloaded memory" and changes nothing; an LD or an
\* ALU instruction in direct or indexed mode never faults and reads the byte
\* that memory holds at its effective address, loaded or not
C5_FetchGatedReadsNot ==
    [][ /\ (CanStep /\ ~halted /\ pc \notin loaded)
           => ( /\ fault' = "unloaded"
                /\ UNCHANGED <<pc, a, r, z, c, sp, stack, mem, out, cycles,
                               halted, loaded>> )
        /\ (Fetching /\ mm(op) \in {2, 3} /\ iiiii(op) \in DOMAIN LD_OPCODES)
           => LET ea == IF mm(op) = 2 THEN operand ELSE (r[r_bit(op)] + operand) % 256
                  reg == LD_OPCODES[iiiii(op)]
              IN  /\ fault' = "none"
                  /\ mem[ea] = IF reg = "A" THEN a'
                               ELSE IF reg = "R0" THEN r'[0] ELSE r'[1]
        /\ (Fetching /\ mm(op) \in {2, 3} /\ iiiii(op) \in DOMAIN ALU_OPCODES)
           => LET ea == IF mm(op) = 2 THEN operand ELSE (r[r_bit(op)] + operand) % 256
                  alu == ALU_OPCODES[iiiii(op)]
              IN  /\ fault' = "none"
                  /\ alu = "ADD" => a' = (a + mem[ea]) % 256
                  /\ alu = "SUB" => a' = (a - mem[ea]) % 256
                  /\ alu = "AND" => a' = And8(a, mem[ea])
                  /\ alu = "OR" => a' = Or8(a, mem[ea])
                  /\ alu = "XOR" => a' = Xor8(a, mem[ea])
                  /\ alu = "CMP" => (z' = (a = mem[ea]) /\ c' = (a >= mem[ea]))
      ]_vars

\* LD R0, [0xFF] read the byte an earlier ST left at the unloaded address 0xFF
C5_UnloadedByteRead ==
    /\ opcode = 10 /\ fault = "none" /\ IO_ADDR \notin loaded
    /\ mem[IO_ADDR] = 1 /\ r[0] = 1

\* C6: the output is exactly the bytes stored by the executed ST
\* instructions whose effective address is 0xFF, in order: such an ST appends
\* the stored byte, nothing else changes the output, and mem[0xFF] holds the
\* last byte written
C6_OutputIsTheStoresToIO ==
    /\ [](out # <<>> => mem[IO_ADDR] = out[Len(out)])
    /\ [][ LET ea == IF mm(op) = 2 THEN operand ELSE (r[r_bit(op)] + operand) % 256
               storing == /\ Fetching /\ iiiii(op) \in DOMAIN ST_OPCODES
                          /\ mm(op) \in {2, 3} /\ ea = IO_ADDR
           IN  /\ storing => /\ out' = Append(out, get_reg(ST_OPCODES[iiiii(op)]))
                             /\ mem'[IO_ADDR] = get_reg(ST_OPCODES[iiiii(op)])
               /\ ~storing => out' = out
         ]_vars

\* a direct and then an indexed ST to 0xFF each sent their byte
C6_TwoBytesWritten ==
    Len(out) = 2 /\ opcode = 27 /\ fault = "none" /\ mem[IO_ADDR] = out[2]

(***************************************************************************)
(* The assembler and the simulator together                                *)
(***************************************************************************)
\* the meaning the simulator gives to the MM field
MODE_OF_MM == (0 :> "imm") @@ (1 :> "reg") @@ (2 :> "direct") @@ (3 :> "indexed")

\* how pass 2 reads a source line: the kind of statement, the operation, the
\* primary register, the addressing mode that is encoded and the other
\* register (for PUSH/POP/INC/DEC the register of the compound mnemonic)
Instruction(raw_line, syms) ==
    LET form(kind, name, primary, mode_, other) ==
            [kind |-> kind, name |-> name, primary |-> primary, mode |-> mode_,
             other |-> other]
        variable(kind, name, primary, p) ==
            form(kind, name, primary,
                 IF p.mode = "value" THEN (IF name = "ST" THEN "direct" ELSE "imm")
                 ELSE p.mode,
                 p.reg)
        ld_st(name, parts) ==
            IF parts.reg = None \/ parts.reg[1] \notin REGISTER_NAMES
               \/ parts.scodetext = None
            THEN form("malformed", name, "", "", "")
            ELSE variable("ldst", name, parts.reg[1],
                          parse_operand(parts.scodetext[1], syms))
        other(name, operand_text, combined) ==
            IF Truthy(operand_text) /\ combined \in DOMAIN FIXED_OPCODES
            THEN form("fixed", name, "", "", upper(strip(operand_text[1])))
            ELSE IF name \in DOMAIN FIXED_OPCODES
            THEN form("fixed", name, "", "", "")
            ELSE IF name \in DOMAIN ALU_INSTRUCTIONS /\ operand_text # None
            THEN variable("alu", name, "A", parse_operand(operand_text[1], syms))
            ELSE form("malformed", name, "", "", "")
        statement(p) ==
            IF p.mnemonic = None THEN form("none", "", "", "", "")
            ELSE IF p.mnemonic[1] \in {".ORG", ".EQU", ".DB", ".DS"}
            THEN form("directive", p.mnemonic[1], "", "", "")
            ELSE IF p.mnemonic[1] \in {"LD", "ST"}
            THEN ld_st(p.mnemonic[1], parse_ld_st_operand(p.operand_text))
            ELSE other(p.mnemonic[1], p.operand_text,
                       IF Truthy(p.operand_text)
                       THEN p.mnemonic[1] \o " " \o upper(strip(p.operand_text[1]))
                       ELSE "")
    IN  statement(parse_line(raw_line))

\* C7: for every instruction of an assembled program the simulator's decode
\* of the emitted opcode byte selects the operation, the primary register, the
\* addressing mode and the other/index register that the source line names,
\* and executing the instruction consumes exactly the bytes emitted for it
C7_SharedEncoding ==
    /\ [](written =>
            \A i \in 1..Len(listing) :
               LET ins == Instruction(lines[i], symbols)
                   b == listing[i].bytes
               IN  ins.kind \in {"ldst", "alu", "fixed"} =>
                     /\ Len(b) \in {1, 2}
                     /\ Dispatch(b[1]) = ins.name
                     /\ ins.kind = "ldst" =>
                          ins.primary = IF ins.name = "LD" THEN LD_OPCODES[iiiii(b[1])]
                                        ELSE ST_OPCODES[iiiii(b[1])]
                     /\ ins.kind \in {"ldst", "alu"} =>
                          /\ MODE_OF_MM[mm(b[1])] = ins.mode
                          /\ ins.mode = "reg" =>
                               REG_MODE_MAP[ins.primary][r_bit(b[1])] = ins.other
                          /\ ins.mode = "indexed" =>
                               ins.other = IF r_bit(b[1]) = 0 THEN "R0" ELSE "R1"
                          /\ Len(b) = IF mm(b[1]) = 1 THEN 1 ELSE 2
                     /\ (ins.kind = "fixed" /\ ins.other # "") =>
                          (mm(b[1]) \in DOMAIN REG_ENCODING
                              /\ REG_ENCODING[mm(b[1])] = ins.other))
    /\ [][ \A i \in 1..Len(listing) :
              LET b == listing[i].bytes
                  here == /\ Fetching /\ written
                          /\ listing[i].addr = Some(pc) /\ b # <<>>
                          /\ Instruction(lines[i], symbols).kind
                                 \in {"ldst", "alu", "fixed"}
                          /\ mem[pc] = b[1]
                          /\ Len(b) = 2 => mem[pc1] = b[2]
                  name == Instruction(lines[i], symbols).name
              IN  here =>
                    CASE name = "JMP" -> Len(b) = 2 /\ pc' = b[2]
                      [] name = "CALL" ->
                           /\ Len(b) = 2
                           /\ IF sp = STACK_DEPTH THEN pc' = pc2
                              ELSE pc' = b[2] /\ stack'[sp] = pc2
                      [] name \in BRANCH_INSTRUCTIONS ->
                           Len(b) = 2 /\ pc' \in {pc2, (pc2 + b[2]) % 256}
                      [] name = "RET" -> Len(b) = 1
                      [] OTHER -> pc' = (pc + Len(b)) % 256
         ]_vars

\* the assembled ST A, [R1+2] was decoded and executed as an indexed store
C7_IndexedStoreExecuted ==
    /\ written /\ mode = "run" /\ fault = "none" /\ opcode = 31 /\ cycles >= 1
    /\ \E i \in 1..Len(listing) : listing[i].bytes = <<31, 2>>

\* C8: in register mode the R bit selects the non-primary register by the
\* table A -> R0/R1, R0 -> A/R1, R1 -> A/R0: executing the assembled LD p, o
\* sets p := o and the assembled ST p, o sets o := p, a register-mode ALU
\* instruction combines A with R0 or R1, and LD p, p, ST p, p and an ALU
\* instruction on register A are rejected with an error and no output
C8_RegisterMode ==
    /\ [](phase = "exited" =>
            \A i \in 1..Len(lines) :
               LET ins == Instruction(lines[i], symbols)
               IN  ( /\ ins.mode = "reg"
                     /\ \/ ins.kind = "ldst" /\ ins.other = ins.primary
                        \/ ins.kind = "alu" /\ ins.other = "A" )
                   => /\ ~written /\ asm_rc = 1
                      /\ Len(listing) >= i => \E k \in 1..Len(errors) : errors[k].line = i)
    /\ [][ \A i \in 1..Len(listing) :
              LET b == listing[i].bytes
                  ins == Instruction(lines[i], symbols)
                  here == /\ Fetching /\ written
                          /\ listing[i].addr = Some(pc) /\ b = <<mem[pc]>>
                          /\ ins.kind \in {"ldst", "alu"} /\ ins.mode = "reg"
                  from == IF ins.name = "LD" THEN ins.other ELSE ins.primary
                  to == IF ins.name = "LD" THEN ins.primary ELSE ins.other
                  v == get_reg(ins.other)
              IN  here =>
                    /\ fault' = "none"
                    /\ ins.other # ins.primary
                    /\ ins.other = (CASE ins.primary = "A" -> <<"R0", "R1">>
                                       [] ins.primary = "R0" -> <<"A", "R1">>
                                       [] ins.primary = "R1" -> <<"A", "R0">>)
                                        [r_bit(b[1]) + 1]
                    /\ ins.kind = "ldst" =>
                         /\ get_reg(from) = IF to = "A" THEN a'
                                            ELSE IF to = "R0" THEN r'[0] ELSE r'[1]
                         /\ to # "A" => a' = a
                         /\ to # "R0" => r'[0] = r[0]
                         /\ to # "R1" => r'[1] = r[1]
                         /\ UNCHANGED <<z, c, mem>>
                    /\ ins.kind = "alu" =>
                         /\ ins.other \in {"R0", "R1"} /\ r' = r
                         /\ ins.name = "ADD" => a' = (a + v) % 256
                         /\ ins.name = "SUB" => a' = (a - v) % 256
                         /\ ins.name = "AND" => a' = And8(a, v)
                         /\ ins.name = "OR" => a' = Or8(a, v)
                         /\ ins.name = "XOR" => a' = Xor8(a, v)
                         /\ ins.name = "CMP" => (a' = a /\ z' = (a = v) /\ c' = (a >= v))
         ]_vars

\* LD A, #1 / LD R0, #2 / LD R1, #3 / LD R0, R1 was run: R0 took R1's value
C8_RegisterCopied ==
    /\ written /\ fault = "none" /\ opcode = 13 /\ cycles = 4
    /\ a = 1 /\ r[0] = 3 /\ r[1] = 3

\* C9: a source with a line ST r, #expr is assembled with exit status 1 and
\* no output, and pass 2 reports "ST does not support immediate addressing
\* mode" at that line; an opcode byte with an ST code in IIIII and MM = 00
\* makes step() raise without a write to memory or to a register
C9_NoImmediateStore ==
    /\ [](phase = "exited" =>
            \A i \in 1..Len(lines) :
               LET ins == Instruction(lines[i], symbols)
               IN  (ins.kind = "ldst" /\ ins.name = "ST" /\ ins.mode = "imm")
                   => /\ ~written /\ asm_rc = 1
                      /\ Len(listing) >= i =>
                           Err(i, "ST does not support immediate addressing mode")
                               \in {errors[k] : k \in 1..Len(errors)})
    /\ [][ (Fetching /\ iiiii(op) \in {3, 4, 5} /\ mm(op) = 0)
             => (fault' = "st_immediate" /\ UNCHANGED <<mem, a, r, out, z, c>>)
         ]_vars

\* the byte 0x18 (ST A with MM = 00), assembled from a .DB line, was
\* executed and raised
C9_ImmediateStoreFaulted ==
    /\ written /\ opcode = 24 /\ fault = "st_immediate" /\ runpc = "returned" /\ rc = 1

\* C10: in a program that assembles without error every line emits in pass 2
\* the number of bytes pass 1 predicted: variable-mode instructions 1 byte in
\* register mode else 2, JMP/CALL/branches 2, other fixed opcodes 1, .DB one
\* byte per number and len(s) per string, .DS len(decoded string) + 1
C10_SizesAgree ==
    written =>
      \A i \in 1..Len(listing) :
         LET ins == Instruction(lines[i], symbols)
             p == parse_line(lines[i])
             n == Len(listing[i].bytes)
             s == strip(p.operand_text[1])
         IN  /\ n = IF sizes1[i] = -1 THEN 0 ELSE sizes1[i]
             /\ ins.kind \in {"ldst", "alu"} => n = IF ins.mode = "reg" THEN 1 ELSE 2
             /\ ins.kind = "fixed" =>
                  n = IF ins.name \in {"JMP", "CALL"} \cup BRANCH_INSTRUCTIONS
                      THEN 2 ELSE 1
             /\ (ins.name = ".DS" /\ Truthy(p.operand_text) /\ IsQuoted(s)) =>
                  n = Len(decode_string(Unquote(s)).bytes) + 1
             /\ (ins.name = ".DB" /\ Truthy(p.operand_text)) =>
                  IF IsQuoted(s) /\ Len(s) >= 2
                     /\ \A k \in 2..(Len(s) - 1) : ~IsQuote(Ch(s, k))
                  THEN n = Len(s) - 2
                  ELSE n = db_count(split_comma(p.operand_text[1]))

\* .DB "a," was assembled without error into the single byte 'a'
C10_CommaInString ==
    /\ written /\ lines = <<".DB \"a,\"">>
    /\ sizes1 = <<1>> /\ listing[1].bytes = <<97>>

(***************************************************************************)
(* Branches, calls and the stack                                           *)
(***************************************************************************)
\* the value of a byte read as two's complement
signed(d) == IF d >= 128 THEN d - 256 ELSE d

\* C11: for every branch line that pass 2 has processed and whose target
\* has a value, with disp = target - (address of the branch + 2): when disp
\* is in -128..127 the line emits the opcode and a byte that reads as disp in
\* two's complement, and no range error; otherwise the line is reported with
\* "Branch displacement out of range" and the program is not written
C11_BranchDisplacement ==
    \A i \in 1..Len(listing) :
       LET p == parse_line(lines[i])
           branch == /\ p.mnemonic # None /\ p.mnemonic[1] \in BRANCH_INSTRUCTIONS
                     /\ p.operand_text # None
           res == resolve(parse_operand(p.operand_text[1], symbols).val, symbols)
           disp == res.val.n - (listing[i].addr[1] + 2)
           range_error == Err(i, "Branch displacement out of range")
                              \in {errors[k] : k \in 1..Len(errors)}
       IN  (branch /\ res.val.k = "int" /\ res.errs = <<>>) =>
             IF disp \in -128..127
             THEN /\ Len(listing[i].bytes) = 2
                  /\ listing[i].bytes[1] = FIXED_OPCODES[p.mnemonic[1]]
                  /\ listing[i].bytes[2] \in Byte
                  /\ signed(listing[i].bytes[2]) = disp
                  /\ ~range_error
             ELSE range_error /\ ~written

\* L: INC A / CMP #3 / BNZ L / HLT was assembled: BNZ at 3 carries -5
C11_BackwardBranchAssembled ==
    /\ written /\ Len(listing) = 4
    /\ listing[3].addr = Some(3) /\ listing[3].bytes = <<105, 251>>
    /\ symbols["L"] = 0

\* C12: a conditional branch at address b with displacement byte d sets PC
\* to (b + 2 + signed(d)) mod 256 when its condition holds (BZ: Z, BNZ: not
\* Z, BC: C, BNC: not C) and to (b + 2) mod 256 otherwise, and changes no
\* register, flag or stack; a taken branch that was assembled from a label
\* with an address in 0..255 leaves PC at that address
C12_BranchTransfer ==
    [][ /\ (Fetching /\ op \in {104, 105, 106, 107}) =>
             LET holds == CASE op = 104 -> z
                            [] op = 105 -> ~z
                            [] op = 106 -> c
                            [] op = 107 -> ~c
             IN  /\ fault' = "none"
                 /\ pc' = IF holds THEN (pc + 2 + signed(operand)) % 256
                          ELSE (pc + 2) % 256
                 /\ UNCHANGED <<a, r, z, c, sp, stack, mem, out>>
        /\ \A i \in 1..Len(listing) :
              LET p == parse_line(lines[i])
                  label == strip(p.operand_text[1])
                  here == /\ Fetching /\ written
                          /\ listing[i].addr = Some(pc)
                          /\ listing[i].bytes = <<op, operand>>
                          /\ p.mnemonic # None /\ p.mnemonic[1] \in BRANCH_INSTRUCTIONS
                          /\ p.operand_text # None
                          /\ label \in DOMAIN symbols /\ symbols[label] \in 0..255
                  taken == CASE p.mnemonic[1] = "BZ" -> z
                             [] p.mnemonic[1] = "BNZ" -> ~z
                             [] p.mnemonic[1] = "BC" -> c
                             [] p.mnemonic[1] = "BNC" -> ~c
              IN  here => pc' = IF taken THEN symbols[label] ELSE (pc + 2) % 256
      ]_vars

\* in L: INC A / CMP #3 / BNZ L / HLT the first BNZ was taken back to L
C12_BranchTakenToLabel ==
    /\ written /\ symbols = [x \in {"L"} |-> 0]
    /\ opcode = 105 /\ fault = "none" /\ cycles = 3 /\ a = 1 /\ ~z /\ pc = 0

\* C13: CALL addr at address b with SP < 4 stores (b + 2) mod 256 in the
\* slot at SP, raises SP by one and sets PC to addr; RET with SP > 0 sets PC
\* to the slot below SP and lowers SP by one; no step changes a slot that is
\* below SP both before and after it, so the value a CALL pushed is the one
\* its matching RET pops; CALL at SP = 4 and RET at SP = 0 fault, leave SP
\* and the stack alone and do not transfer control
C13_CallReturn ==
    [][ /\ (Fetching /\ op = 112 /\ sp < STACK_DEPTH) =>
             /\ fault' = "none"
             /\ stack' = [stack EXCEPT ![sp] = (pc + 2) % 256]
             /\ sp' = sp + 1
             /\ pc' = operand
             /\ UNCHANGED <<a, r, z, c, mem, out>>
        /\ (Fetching /\ op = 120 /\ sp > 0) =>
             /\ fault' = "none"
             /\ pc' = stack[sp - 1]
             /\ sp' = sp - 1
             /\ UNCHANGED <<a, r, z, c, stack, mem, out>>
        /\ (Fetching /\ op = 112 /\ sp = STACK_DEPTH) =>
             /\ fault' = "stack_overflow"
             /\ pc' = (pc + 2) % 256
             /\ UNCHANGED <<a, r, z, c, sp, stack, mem, out>>
        /\ (Fetching /\ op = 120 /\ sp = 0) =>
             /\ fault' = "stack_underflow"
             /\ pc' = (pc + 1) % 256
             /\ UNCHANGED <<a, r, z, c, sp, stack, mem, out>>
        /\ \A k \in 0..(STACK_DEPTH - 1) :
              (k < sp /\ k < sp') => stack'[k] = stack[k]
      ]_vars

\* in CALL F / HLT / F: CALL G / RET / G: PUSH A / POP R0 / RET the outer
\* RET, the sixth instruction, resumed at 2, the address after CALL F
C13_NestedCallReturned ==
    /\ written /\ Len(lines) = 7 /\ "G" \in DOMAIN symbols
    /\ opcode = 120 /\ fault = "none" /\ cycles = 6 /\ pc = 2 /\ sp = 0
    /\ stack[0] = 2 /\ stack[1] = 5

\* C14: the stack is last-in first-out.  PUSH reg with SP = s < 4 stores the
\* register in slot s and makes SP s + 1; POP reg with SP = s > 0 gives the
\* register the value of slot s - 1 and makes SP s - 1; no instruction
\* changes a slot below SP.  So k pushes
\* of v1..vk from SP = s fill slots s..s+k-1 and the k pops that follow read
\* them back as vk..v1 and leave SP = s
C14_StackIsLIFO ==
    [][ /\ (Fetching /\ op \in {128, 129, 130} /\ sp < STACK_DEPTH) =>
             LET v == CASE op = 128 -> a [] op = 129 -> r[0] [] op = 130 -> r[1]
             IN  /\ fault' = "none"
                 /\ stack' = [stack EXCEPT ![sp] = v]
                 /\ sp' = sp + 1
                 /\ UNCHANGED <<a, r, z, c, mem, out>>
        /\ (Fetching /\ op \in {136, 137, 138} /\ sp > 0) =>
             LET v == stack[sp - 1]
             IN  /\ fault' = "none"
                 /\ sp' = sp - 1
                 /\ a' = IF op = 136 THEN v ELSE a
                 /\ r' = [r EXCEPT ![0] = IF op = 137 THEN v ELSE @,
                                   ![1] = IF op = 138 THEN v ELSE @]
                 /\ UNCHANGED <<z, c, stack, mem, out>>
        /\ Fetching => \A k \in 0..(STACK_DEPTH - 1) :
                           k < sp => stack'[k] = stack[k]
      ]_vars

\* four pushes of 1, 2, 3, 4 from SP = 0 and four pops into R0, R1, A, R0:
\* the pops gave 4, 3, 2, 1 and SP is 0 again
C14_FourDeepPopped ==
    /\ written /\ Len(lines) = 13 /\ halted /\ fault = "none"
    /\ sp = 0 /\ stack = [k \in 0..(STACK_DEPTH - 1) |-> k + 1]
    /\ r[1] = 3 /\ a = 2 /\ r[0] = 1

\* C15: an ADD executed with accumulator a and source value s, the source
\* being the operand byte, R0 or R1, the byte at the operand address or the
\* byte at register plus operand, leaves A = (a + s) mod 256, Z true exactly
\* when the new A is 0 and C true exactly when a + s >= 256
C15_AddLaw ==
    [][ \A m \in 0..3, rb \in {0, 1} :
          (Fetching /\ op = 48 + 4 * rb + m) =>
             LET byte == mem[(pc + 1) % 256]
                 s == CASE m = 0 -> byte
                        [] m = 1 -> r[rb]
                        [] m = 2 -> mem[byte]
                        [] m = 3 -> mem[(r[rb] + byte) % 256]
             IN  /\ fault' = "none"
                 /\ a' = (a + s) % 256
                 /\ z' = (a' = 0)
                 /\ c' = (a + s >= 256)
                 /\ r' = r
      ]_vars

\* 128 + 128 through ADD [R1+13] with R1 = 250: A is 0 with Z and C set
C15_AddWrappedToZero ==
    /\ mode = "step" /\ opcode = 55 /\ fault = "none" /\ cycles = 3
    /\ r[1] = 250 /\ mem[1] = 128 /\ mem[7] = 128
    /\ a = 0 /\ z /\ c

\* C16: SUB and CMP executed with accumulator a and source value s leave C
\* true exactly when a >= s and Z true exactly when (a - s) mod 256 = 0; SUB
\* leaves A = (a - s) mod 256; CMP leaves A, R0 and R1 as they were
C16_SubCmpLaw ==
    [][ \A m \in 0..3, rb \in {0, 1} :
          (Fetching /\ op \in {56 + 4 * rb + m, 88 + 4 * rb + m}) =>
             LET byte == mem[(pc + 1) % 256]
                 s == CASE m = 0 -> byte
                        [] m = 1 -> r[rb]
                        [] m = 2 -> mem[byte]
                        [] m = 3 -> mem[(r[rb] + byte) % 256]
             IN  /\ fault' = "none"
                 /\ c' = (a >= s)
                 /\ z' = ((a - s) % 256 = 0)
                 /\ a' = IF op < 88 THEN (a - s) % 256 ELSE a
                 /\ r' = r
      ]_vars

\* CMP R0 with A = R0 = 128: Z and C set, A still 128
C16_CompareEqual ==
    /\ mode = "step" /\ opcode = 89 /\ fault = "none" /\ cycles = 3
    /\ a = 128 /\ r[0] = 128 /\ r[1] = 0 /\ z /\ c

\* C17: when the assembly completed without error, every label of the source
\* is in the symbol table with a value in 0..255
C17_LabelsInRange ==
    written =>
       \A i \in 1..Len(lines) :
          LET p == parse_line(lines[i])
          IN  Truthy(p.label) =>
                 /\ p.label[1] \in DOMAIN symbols
                 /\ symbols[p.label[1]] \in 0..255

\* .ORG 0xFF / HLT / END: was assembled and written with END = 256
C17_LabelAt256 ==
    /\ written /\ asm_rc = 0 /\ errors = <<>>
    /\ lines = <<".ORG 0xFF", "HLT", "END:">>
    /\ symbols = [x \in {"END"} |-> 256]
    /\ DOMAIN output = {255}

\* C18: when two lines of the source define the same identifier, each by its
\* label or by its .EQU, the assembler reports an error and writes no output
C18_DuplicateIsError ==
    phase = "exited" =>
       \A i \in 1..Len(lines), j \in 1..Len(lines) :
          LET defined(n) ==
                  LET p == parse_line(lines[n])
                      parts == IF Truthy(p.operand_text)
                               THEN split_comma1(p.operand_text[1]) ELSE <<>>
                  IN  (IF Truthy(p.label) THEN {p.label[1]} ELSE {})
                      \cup (IF p.mnemonic = Some(".EQU") /\ Len(parts) = 2
                            THEN {strip(parts[1])} ELSE {})
          IN  (i < j /\ defined(i) \cap defined(j) # {}) =>
                 (errors # <<>> /\ ~written)

\* K: NOP / .EQU K, 5 / LD A, #K was assembled and written: no error, K is 5
\* and not the label's address 0
C18_LabelRedefinedByEqu ==
    /\ written /\ asm_rc = 0 /\ errors = <<>>
    /\ lines = <<"K: NOP", ".EQU K, 5", "LD A, #K">>
    /\ symbols = [x \in {"K"} |-> 5]
    /\ output = (0 :> 160) @@ (1 :> 0) @@ (2 :> 5)

\* C19: the address -> byte map of an assembly that was written has all its
\* addresses in 0..255
C19_OutputInAddressSpace ==
    written => DOMAIN output \subseteq 0..255

\* .ORG -1 / .DB 1, 2 was assembled and written with a byte at address -1
C19_ByteBelowZero ==
    /\ written /\ asm_rc = 0 /\ errors = <<>>
    /\ lines = <<".ORG -1", ".DB 1, 2">>
    /\ output = (-1 :> 1) @@ (0 :> 2)

\* C20: once the assembler has exited, either it reported errors, each with
\* the number of a line of the source, wrote nothing and exited with 1, or
\* it reported none, wrote the object file and the listing and exited with 0
C20_ErrorsOrOutput ==
    phase = "exited" =>
       /\ errors # <<>> =>
             /\ ~written /\ asm_rc = 1
             /\ \A k \in 1..Len(errors) : errors[k].line \in 1..Len(lines)
       /\ errors = <<>> => (written /\ asm_rc = 0)

\* JMP R0 ended the assembler with an exception: no error was reported, and
\* nothing was written
C20_CrashedWithoutDiagnostic ==
    /\ phase = "exited" /\ lines = <<"JMP R0">>
    /\ crashed /\ asm_rc = 1 /\ errors = <<>> /\ ~written

\* C21: once the assembler has exited, every .DS line whose quoted string,
\* and every .DB line one of whose quoted items, holds an unknown escape
\* sequence or a non-ASCII character has an error reported with its line
\* number, and nothing was written
C21_BadStringReported ==
    phase = "exited" =>
       \A i \in 1..Len(lines) :
          LET p == parse_line(lines[i])
              text == IF Truthy(p.operand_text) THEN strip(p.operand_text[1]) ELSE ""
              items == split_comma(text)
              bad == \/ /\ p.mnemonic = Some(".DS") /\ IsQuoted(text)
                        /\ ~decode_string(Unquote(text)).ok
                     \/ /\ p.mnemonic = Some(".DB")
                        /\ \E k \in 1..Len(items) :
                              /\ IsQuote(Ch(strip(items[k]), 1))
                              /\ ~decode_string(strip_quotes(strip(items[k]))).ok
          IN  bad => /\ \E k \in 1..Len(errors) : errors[k].line = i
                     /\ ~written

\* .DS "a\qb" ended the assembler in pass 1 with the ValueError of
\* decode_string: no error was reported for line 1
C21_UnknownEscapeRaised ==
    /\ phase = "exited" /\ lines = <<".DS \"a\\qb\"">>
    /\ crashed /\ asm_rc = 1 /\ errors = <<>> /\ ~written
    /\ listing = <<>>

\* C22: the text a generator wrote for a map with addresses and bytes in
\* 0..255, parsed by the parser of the same format, gives that map back: the
\* parser does not raise, and its result has the same addresses and bytes
C22_RoundTrip ==
    ( /\ obj_stage = "parsed"
      /\ obj_text = IF obj_fmt = "hex" THEN generate_hex(obj_map)
                    ELSE generate_srec(obj_map) ) =>
       /\ ~obj_result.raised
       /\ DOMAIN obj_result.map = DOMAIN obj_map
       /\ \A x \in DOMAIN obj_map : obj_result.map[x] = obj_map[x]

\* the map with a byte at 5 and eighteen bytes at 20..37 came back from its
\* S-record text, which has three S1 records
C22_GappedMapCameBack ==
    /\ obj_stage = "parsed" /\ obj_fmt = "srec" /\ ~obj_result.raised
    /\ DOMAIN obj_map = {5} \cup (20..37) /\ obj_map[5] = 196
    /\ obj_result.map = obj_map
    /\ Len(splitlines(obj_text)) = 5
    /\ obj_text = generate_srec(obj_map)

\* C23: in the text a generator wrote, every line is hex pairs after its
\* prefix; the pairs of an Intel HEX line sum to 0 modulo 256 and those of an
\* S-record line to 255 modulo 256; a data record holds 1 to 16 bytes, which
\* are the map's bytes at its address and the addresses that follow it; the
\* last line is the terminator and an S-record text starts with the header
C23_ChecksumLaws ==
    obj_stage = "written" =>
       LET ls == splitlines(obj_text)
           hex == obj_fmt = "hex"
           raw(k) == fromhex(From(ls[k], IF hex THEN 1 ELSE 2))
           total(bytes) == sum(bytes) % 256
           is_data(k) == IF hex THEN raw(k).bytes[4] = 0 ELSE startswith(ls[k], "S1")
           base(k) == raw(k).bytes[2] * 256 + raw(k).bytes[3]
           data(k) == SubSeq(raw(k).bytes, IF hex THEN 5 ELSE 4, Len(raw(k).bytes) - 1)
       IN  /\ Len(ls) >= 1
           /\ \A k \in 1..Len(ls) :
                 /\ startswith(ls[k], IF hex THEN ":" ELSE "S")
                 /\ raw(k).ok /\ Len(raw(k).bytes) >= 4
                 /\ total(raw(k).bytes) = IF hex THEN 0 ELSE 255
                 /\ is_data(k) =>
                       /\ Len(data(k)) \in 1..16
                       /\ raw(k).bytes[1] = Len(data(k)) + IF hex THEN 0 ELSE 3
                       /\ \A i \in 1..Len(data(k)) :
                             /\ base(k) + i - 1 \in DOMAIN obj_map
                             /\ data(k)[i] = obj_map[base(k) + i - 1]
           /\ ls[Len(ls)] = IF hex THEN ":00000001FF" ELSE "S9030000FC"
           /\ ~hex => ls[1] = "S00A00004544552D43505502"
           /\ \A k \in 1..(Len(ls) - 1) : hex \/ k > 1 => is_data(k)

\* the 33 bytes at 10..42 were written as Intel HEX records of 16, 16 and 1
\* bytes and the EOF record
C23_ThreeHexRecords ==
    /\ obj_stage = "written" /\ obj_fmt = "hex"
    /\ obj_map = [x \in 10..42 |-> x]
    /\ splitlines(obj_text) =
          << ":10000A000A0B0C0D0E0F10111213141516171819CE",
             ":10001A001A1B1C1D1E1F20212223242526272829BE",
             ":01002A002AAB",
             ":00000001FF" >>

\* C24: a line decodes as a record when it has its format's prefix and hex
\* pairs after it (at least five for Intel HEX, one for S-record); a record
\* is valid when its checksum and its byte count are right; the terminator
\* is the first valid record of type 01 (Intel HEX) or S9.  When a record
\* that is not valid stands before the terminator, the parser raises and
\* returns no map.  When the parser does not raise, its map holds exactly
\* the addresses below 256 that the data records before the terminator
\* cover, each with the byte of the last such record: bytes at 256 and above
\* are dropped and the records after the terminator count for nothing
C24_ParserRejectsAndIgnores ==
    obj_stage = "parsed" =>
       LET text == splitlines(obj_text)
           hex == obj_fmt = "hex"
           record(line, raw) ==
               LET is_record == /\ startswith(line, IF hex THEN ":" ELSE "S")
                                /\ Len(line) >= (IF hex THEN 1 ELSE 2)
                                /\ raw.ok
                                /\ Len(raw.bytes) >= (IF hex THEN 5 ELSE 1)
                   checksum_ok == sum(raw.bytes) % 256 = (IF hex THEN 0 ELSE 255)
                   count_ok == raw.bytes[1] = Len(raw.bytes) - (IF hex THEN 5 ELSE 1)
                   valid == is_record /\ checksum_ok /\ count_ok
               IN  [is_record |-> is_record,
                    valid |-> valid,
                    terminator |-> valid /\ (IF hex THEN raw.bytes[4] = 1
                                             ELSE Ch(line, 2) = "9"),
                    data |-> valid /\ (IF hex THEN raw.bytes[4] = 0
                                       ELSE Ch(line, 2) = "1" /\ Len(raw.bytes) >= 3),
                    addr |-> IF valid /\ Len(raw.bytes) >= 3
                             THEN raw.bytes[2] * 256 + raw.bytes[3] ELSE 0,
                    bytes |-> IF valid
                              THEN SubSeq(raw.bytes, IF hex THEN 5 ELSE 4,
                                          Len(raw.bytes) - 1)
                              ELSE <<>>]
           decoded(line) == record(line, fromhex(From(line, IF hex THEN 1 ELSE 2)))
           recs == <<>> \o [k \in 1..Len(text) |-> decoded(strip(text[k]))]
           terminators == {k \in 1..Len(recs) : recs[k].terminator}
           end == IF terminators = {} THEN Len(recs) + 1
                  ELSE CHOOSE k \in terminators : \A j \in terminators : k <= j
           covering(x) ==
               {k \in 1..Len(recs) :
                   /\ k < end /\ recs[k].data
                   /\ x - recs[k].addr \in 0..(Len(recs[k].bytes) - 1)}
           last(x) == CHOOSE k \in covering(x) : \A j \in covering(x) : j <= k
       IN  /\ (\E k \in 1..Len(recs) :
                  k <= end /\ recs[k].is_record /\ ~recs[k].valid) =>
                 (obj_result.raised /\ obj_result.map = <<>>)
           /\ ~obj_result.raised =>
                 /\ DOMAIN obj_result.map = {x \in 0..255 : covering(x) # {}}
                 /\ \A x \in DOMAIN obj_result.map :
                       obj_result.map[x] =
                          recs[last(x)].bytes[x - recs[last(x)].addr + 1]

\* the Intel HEX text of the map {0: 0} with the checksum FF of its data
\* record changed to F0 was rejected
C24_BadChecksumRejected ==
    /\ obj_stage = "parsed" /\ obj_fmt = "hex"
    /\ obj_text = ":0100000000F0\n:00000001FF\n"
    /\ obj_result.raised /\ obj_result.map = <<>>

\* C25: a line whose operand is a bare number or symbol v has the bytes that
\* pass 2 gives the same line with #v in its place for the ALU operations
\* and LD, and with [v] in its place for ST; when v is a number these are
\* the immediate opcode (the direct opcode for ST) and v mod 256
C25_BareOperand ==
    \A i \in 1..Len(listing) :
       LET p == parse_line(lines[i])
           mn == IF p.mnemonic = None THEN "" ELSE p.mnemonic[1]
           parts == parse_ld_st_operand(p.operand_text)
           alu == mn \in DOMAIN ALU_INSTRUCTIONS /\ p.operand_text # None
           ldst == /\ mn \in {"LD", "ST"}
                   /\ parts.reg # None /\ parts.scodetext # None
                   /\ parts.reg[1] \in REGISTER_NAMES
           v == IF alu THEN strip(p.operand_text[1])
                ELSE IF ldst THEN strip(parts.scodetext[1]) ELSE ""
           bare(po) == po.mode = "value" /\ po.val.k # "raise"
           number(po) == po.val.k = "int"
           same(po, marked, code) ==
               (bare(po) =>
                   /\ listing[i].bytes = marked.emitted
                   /\ number(po) => listing[i].bytes = <<code, po.val.n % 256>>)
       IN  /\ alu =>
                same(parse_operand(v, symbols),
                     pass2_alu(mn, Some("#" \o v), symbols),
                     ALU_INSTRUCTIONS[mn] * 8)
           /\ (ldst /\ mn = "LD") =>
                same(parse_operand(v, symbols),
                     pass2_ld_st(mn, Some(parts.reg[1] \o ", #" \o v), symbols),
                     LD_CODES[parts.reg[1]] * 8)
           /\ (ldst /\ mn = "ST") =>
                same(parse_operand(v, symbols),
                     pass2_ld_st(mn, Some(parts.reg[1] \o ", [" \o v \o "]"), symbols),
                     ST_CODES[parts.reg[1]] * 8 + 2)

\* ST A, 7 was assembled and written as the direct store 1A 07
C25_BareStoreIsDirect ==
    /\ written /\ lines = <<"ST A, 7">>
    /\ listing[1].bytes = <<26, 7>> /\ output = (0 :> 26) @@ (1 :> 7)

\* C26: scenario E2.  The source .ORG 0 / LD R0,#5 / LD A,#0 / L: ADD R0 /
\* DEC R0 / BNZ L / ST A,[0xFF] / HLT assembles without an error to the
\* eleven bytes 08 05 00 00 31 99 69 FC 1A FF A8 and main() exits 0; the run
\* of that image never faults, has written nothing or the one byte 0x0F at
\* every moment, and returns after 19 instructions with the output 0x0F, the
\* CPU halted and exit status 0
C26_ScenarioE2 ==
    lines = <<".ORG 0", " LD R0,#5", " LD A,#0", "L: ADD R0", " DEC R0",
              " BNZ L", " ST A,[0xFF]", " HLT">> =>
        /\ phase = "exited" =>
             /\ ~crashed /\ errors = <<>> /\ written /\ asm_rc = 0
             /\ output = ImageOf(<<8, 5, 0, 0, 49, 153, 105, 252, 26, 255, 168>>)
        /\ mode = "run" =>
             /\ fault = "none" /\ cycles <= 19
             /\ out \in {<<>>, <<15>>}
        /\ (mode = "run" /\ runpc = "returned") =>
             /\ out = <<15>> /\ halted /\ rc = 0 /\ cycles = 19

\* the run of E2 returned 0 with the output 0x0F after its fifth DEC R0 made
\* R0 zero
C26_SumWritten ==
    /\ Len(lines) = 8 /\ lines[4] = "L: ADD R0" /\ lines[6] = " BNZ L"
    /\ mode = "run" /\ runpc = "returned" /\ rc = 0
    /\ out = <<15>> /\ a = 15 /\ r[0] = 0 /\ halted /\ cycles = 19

\* C27: scenario E4 as the claim states it.  The source .ORG 0 /
\* LD R0,#0x10 / .ORG 0x10 / .DB 'H','i',0 / .ORG 3 / L: LD A,[R0+0] /
\* CMP #0 / BZ D / ST A,[0xFF] / INC R0 / JMP L / D: HLT assembles without
\* an error, and the run of what was assembled never faults, has written a
\* prefix of 'H','i' at every moment and returns with the output 'H','i',
\* the CPU halted and exit status 0
C27_ScenarioE4 ==
    lines = <<".ORG 0", " LD R0,#0x10", " .ORG 0x10", " .DB 'H','i',0",
              " .ORG 3", "L: LD A,[R0+0]", " CMP #0", " BZ D",
              " ST A,[0xFF]", " INC R0", " JMP L", "D: HLT">> =>
        /\ phase = "exited" =>
             ~crashed /\ errors = <<>> /\ written /\ asm_rc = 0
        /\ mode = "run" =>
             /\ fault = "none"
             /\ out \in {<<>>, <<72>>, <<72, 105>>}
        /\ (mode = "run" /\ runpc = "returned") =>
             out = <<72, 105>> /\ halted /\ rc = 0

\* C27 as the code has it.  E4 assembles without an error to 08 10 at 0..1,
\* 03 00 58 00 68 05 1A FF 91 60 03 A8 at 3..14 and 48 69 00 at 16..18:
\* address 2 is emitted by no line.  Run from the address map (address 2
\* not loaded) the program executes LD R0,#0x10, then step() raises
\* "PC entered unloaded memory" with PC = 2: nothing is written, the CPU is
\* not halted and the exit status is 1.  Run from the raw binary (address 2
\* a loaded zero byte) the zero is executed as LD A,#imm with the next
\* opcode as its operand, the output is the two bytes 0x00, 'i', and the
\* run halts with exit status 0
C27_ScenarioE4Faults ==
    lines = <<".ORG 0", " LD R0,#0x10", " .ORG 0x10", " .DB 'H','i',0",
              " .ORG 3", "L: LD A,[R0+0]", " CMP #0", " BZ D",
              " ST A,[0xFF]", " INC R0", " JMP L", "D: HLT">> =>
        /\ phase = "exited" =>
             /\ ~crashed /\ errors = <<>> /\ written /\ asm_rc = 0
             /\ output = [x \in 0..1 |-> <<8, 16>>[x + 1]]
                  @@ [x \in 3..14 |-> <<3, 0, 88, 0, 104, 5, 26, 255,
                                        145, 96, 3, 168>>[x - 2]]
                  @@ [x \in 16..18 |-> <<72, 105, 0>>[x - 15]]
        /\ (mode = "run" /\ 2 \notin loaded) =>
             /\ loaded = DOMAIN output
             /\ out = <<>> /\ ~halted /\ cycles <= 1
             /\ fault \in {"none", "unloaded"}
             /\ runpc = "returned" =>
                  fault = "unloaded" /\ pc = 2 /\ cycles = 1 /\ rc = 1
                  /\ r[0] = 16
        /\ (mode = "run" /\ 2 \in loaded) =>
             /\ loaded = 0..18
             /\ fault = "none"
             /\ out \in {<<>>, <<0>>, <<0, 105>>}
             /\ runpc = "returned" => out = <<0, 105>> /\ halted /\ rc = 0

\* the run of E4's address map stopped on the unloaded address 2 after one
\* instruction, with nothing written
C27_FaultAtGap ==
    /\ Len(lines) = 12 /\ lines[5] = " .ORG 3" /\ written
    /\ mode = "run" /\ runpc = "returned" /\ rc = 1
    /\ 2 \notin loaded /\ fault = "unloaded" /\ pc = 2 /\ cycles = 1
    /\ out = <<>>

C29_ErrorLinesKeepPC ==
    \A i \in 1..Len(listing) :
       (\E k \in 1..Len(errors) : errors[k].line = i) =>
           /\ Len(listing[i].bytes) = sizes1[i]
           /\ \A j \in (i + 1)..Len(listing) :
                 (listing[j].addr # None /\ sizes1[j] >= 0)
                     => listing[j].addr = Some(pcs1[j])

\* in ST A, #5 / L: NOP / JMP L pass 1 gave the store two bytes and put L at
\* 2; pass 2 reported the store, emitted one zero for it and listed L: NOP
\* at 1 and JMP L, still assembled as 60 02, at 2
C29_PlaceholderTooShort ==
    /\ lines = <<"ST A, #5", "L: NOP", "JMP L">> /\ phase = "exited"
    /\ sizes1 = <<2, 1, 2>> /\ pcs1 = <<0, 2, 3>>
    /\ symbols = [x \in {"L"} |-> 2]
    /\ Len(errors) = 1 /\ errors[1].line = 1
    /\ listing[1].bytes = <<0>>
    /\ listing[2].addr = Some(1) /\ listing[3].addr = Some(2)
    /\ listing[3].bytes = <<96, 2>>
    /\ asm_rc = 1 /\ ~written

\* C30: INC reg (opcode 0x90 + code of reg) sets reg to (reg + 1) mod 256
\* and DEC reg (opcode 0x98 + code of reg) sets it to (reg - 1) mod 256, for
\* reg A, R0 or R1; Z becomes true exactly when the new value of reg is 0; C,
\* the other two registers, SP, the stack, memory and the output stay as
\* they were; PC moves to the next byte and no fault is raised
C30_IncDecLaw ==
    [][ \A code \in 0..2, delta \in {-1, 1} :
          (Fetching /\ op = (IF delta = 1 THEN 144 ELSE 152) + code) =>
              LET old == IF code = 0 THEN a ELSE r[code - 1]
                  new == (old + delta) % 256
              IN  /\ a' = IF code = 0 THEN new ELSE a
                  /\ r' = [k \in {0, 1} |-> IF code = k + 1 THEN new ELSE r[k]]
                  /\ z' = (new = 0)
                  /\ c' = c
                  /\ pc' = (pc + 1) % 256
                  /\ fault' = "none"
                  /\ UNCHANGED <<sp, stack, mem, out, halted>>
      ]_vars

\* DEC R1 took R1 from 0 to 255 with C set before and after, Z cleared and A
\* left at 44
C30_DecWrappedCarryKept ==
    /\ mode = "step" /\ opcode = 154 /\ fault = "none" /\ cycles = 4
    /\ mem[5] = 0 /\ r[1] = 255 /\ r[0] = 0 /\ a = 44 /\ c /\ ~z

\* C31: halted is absorbing.  From a state in which the CPU is halted every
\* step of the program leaves it halted, with PC, A, R0, R1, Z, C, SP, the
\* stack, memory, the loaded set, the output and the cycle counter as they
\* were, the last call of step() having returned False without a fault;
\* this whether or not PC is a loaded address
C31_HaltedAbsorbing ==
    [][ halted =>
          /\ halted' /\ ret' = "False" /\ fault' = "none"
          /\ UNCHANGED <<a, r, pc, z, c, sp, stack, mem, loaded, out, cycles>>
      ]_vars

\* HLT was the last loaded byte: the CPU is halted with PC on an unloaded
\* address, step() may be called again and the last call returned False
C31_HaltedOffTheImage ==
    /\ mode = "step" /\ halted /\ opcode = 168 /\ pc \notin loaded
    /\ CanStep /\ ret = "False" /\ fault = "none" /\ cycles = 2

\* C32: for every line .DB s or .DS s of a listing, s one quoted string,
\* that pass 2 assembled without reporting it, the bytes of .DS s are the
\* bytes of .DB s followed by one 0x00, both being the decoded string (each
\* of \n, \t, \r, \0, \\ one byte), and the listing holds those bytes
C32_DataStringsAgree ==
    \A i \in 1..Len(listing) :
       LET p == parse_line(lines[i])
           s == IF Truthy(p.operand_text) THEN strip(p.operand_text[1]) ELSE ""
           db == pass2_db(split_comma(s), symbols)
           ds == pass2_ds(Some(s))
           d == decode_string(Unquote(s))
       IN  (/\ p.mnemonic \in {Some(".DB"), Some(".DS")} /\ IsQuoted(s)
            /\ \A k \in 1..Len(errors) : errors[k].line # i) =>
               /\ ~db.crash /\ db.errs = <<>> /\ d.ok
               /\ ds.emitted = db.emitted \o <<0>>
               /\ ds.emitted = d.bytes \o <<0>>
               /\ listing[i].bytes =
                     IF p.mnemonic = Some(".DB") THEN db.emitted ELSE ds.emitted

\* .DB "a\nb" was written as the four bytes 61 5C 6E 62 and .DS "a\nb" as
\* 61 0A 62 00
C32_EscapeKeptByDB ==
    /\ written /\ asm_rc = 0 /\ errors = <<>>
    /\ lines = <<".DB \"a\\nb\"", ".DS \"a\\nb\"">>
    /\ listing[1].bytes = <<97, 92, 110, 98>>
    /\ listing[2].bytes = <<97, 10, 98, 0>>
    /\ listing[2].addr = Some(4)

\* C33: a call of step() that raises (an invalid opcode or encoding, ST with
\* an immediate, stack overflow, stack underflow, an unloaded PC) leaves A,
\* R0, R1, Z, C, SP, the stack, memory, the loaded set, the output, halted
\* and the cycle counter as they were; PC is past the bytes fetched (both
\* bytes of a CALL that overflows, the opcode alone otherwise, nothing when
\* PC is not loaded); inside run() the fault ends the run with 1, after
\* which nothing of the simulator changes any more
C33_FaultsKeepState ==
    /\ [][ (CanStep /\ ~halted /\ fault' # "none") =>
              /\ UNCHANGED <<a, r, z, c, sp, stack, mem, loaded, out, halted,
                             cycles>>
              /\ fault' \in {"invalid_opcode", "invalid_push", "invalid_pop",
                             "invalid_inc", "invalid_dec", "st_immediate",
                             "stack_overflow", "stack_underflow", "unloaded"}
              /\ pc' = IF fault' = "unloaded" THEN pc
                       ELSE IF fault' = "stack_overflow" /\ iiiii(op) = 14
                       THEN pc2 ELSE pc1
              /\ mode = "run" => (runpc' = "returned" /\ rc' = 1)
         ]_vars
    /\ [][ (mode = "run" /\ runpc = "returned") => UNCHANGED sim ]_vars

\* run() on INC A / RET returned 1 on the RET's stack underflow: A = 1 and
\* the one cycle of INC A are kept, PC is past the RET
C33_UnderflowEndedRun ==
    /\ mode = "run" /\ runpc = "returned" /\ rc = 1
    /\ fault = "stack_underflow" /\ opcode = 120
    /\ a = 1 /\ cycles = 1 /\ pc = 2 /\ sp = 0 /\ ~halted /\ out = <<>>

\* C34: in an assembly that was written (no error in either pass) every
\* line that emits has in pass 2 the address pass 1 had at it, every .ORG
\* leaves pass 2's PC where it left pass 1's, and every label has as its
\* value the address of the first line at or after it that the listing
\* gives an address
C34_PassesAgree ==
    written =>
       \A i \in 1..Len(listing) :
          LET p == parse_line(lines[i])
              later == {j \in i..Len(listing) : listing[j].addr # None}
              first == CHOOSE j \in later : \A k \in later : j <= k
          IN  /\ (listing[i].addr # None /\ p.mnemonic # Some(".ORG"))
                   => listing[i].addr = Some(pcs1[i])
              /\ (p.mnemonic = Some(".ORG") /\ i < Len(listing))
                   => listing[i].addr = Some(pcs1[i + 1])
              /\ (Truthy(p.label) /\ later # {})
                   => symbols[p.label[1]] = listing[first].addr[1]

\* in .EQU K, 5 / .ORG K / L: NOP / .EQU K, 9 / JMP L pass 1 moved to 5 and
\* bound L to 5; pass 2, with K = 9, moved to 9, placed the NOP at 9 and the
\* JMP at 10 with operand 5; the image was written without any error
C34_OrgMovedBetweenPasses ==
    /\ written /\ asm_rc = 0 /\ errors = <<>>
    /\ lines = <<".EQU K, 5", ".ORG K", "L: NOP", ".EQU K, 9", "JMP L">>
    /\ pcs1 = <<0, 0, 5, 6, 6>>
    /\ symbols = [x \in {"K", "L"} |-> IF x = "K" THEN 9 ELSE 5]
    /\ listing[2].addr = Some(9) /\ listing[3].addr = Some(9)
    /\ listing[5].addr = Some(10) /\ listing[5].bytes = <<96, 5>>
    /\ output = (9 :> 160) @@ (10 :> 96) @@ (11 :> 5)

\* C35: execution never changes the loaded set.  Once an image is loaded no
\* step adds or removes a loaded address; a step with PC on an address that
\* is not loaded raises "PC entered unloaded memory" whatever byte memory
\* holds there, and changes nothing; a step with PC on a loaded address
\* executes the byte memory holds there now; a step changes at most one
\* cell of memory
C35_LoadedMapFixed ==
    /\ [][ mode # "new" => loaded' = loaded ]_vars
    /\ [][ (CanStep /\ ~halted /\ pc \notin loaded) =>
              /\ fault' = "unloaded"
              /\ UNCHANGED <<a, r, pc, z, c, sp, stack, mem, out, cycles>>
         ]_vars
    /\ [][ (Fetching /\ fault' = "none") => opcode' = mem[pc] ]_vars
    /\ [][ mode # "new" =>
              \E x \in Byte : \A y \in Byte \ {x} : mem'[y] = mem[y] ]_vars

\* INC A / ST A, [4] / NOP stored 1 at address 4, which no line emitted; the
\* run came to PC = 4 and stopped there on unloaded memory, the 1 still in
\* the cell
C35_StoredByteNotFetched ==
    /\ written /\ lines = <<"INC A", "ST A, [4]", "NOP">>
    /\ mode = "run" /\ runpc = "returned" /\ rc = 1
    /\ loaded = 0..3 /\ mem[4] = 1 /\ pc = 4 /\ fault = "unloaded"
    /\ cycles = 3

TypeOK ==
    /\ a \in Byte /\ r \in [{0, 1} -> Byte] /\ pc \in Byte
    /\ z \in BOOLEAN /\ c \in BOOLEAN
    /\ sp \in 0..STACK_DEPTH
    /\ stack \in [0..(STACK_DEPTH - 1) -> Byte]
    /\ mem \in [Byte -> Byte]
    /\ loaded \subseteq Byte
=============================================================================
